---- MODULE Spec2Model ----
(***************************************************************************)
(* Desmos Code Hub: the AI service (generateAIContent, parseAIResponse),   *)
(* the snippet renderer (generateCode) of the CodeGenerator component and  *)
(* the generation request the forms submit.                                *)
(*                                                                         *)
(* A text is a sequence of one-character strings, so that the regular      *)
(* expressions, JSON.parse, JSON.stringify and String.replace of the       *)
(* source are computed character by character.                             *)
(***************************************************************************)
EXTENDS Integers, Sequences, FiniteSets, TLC

VARIABLES
    pc,         \* position of the generateAIContent call: "idle", "returned", "thrown"
    content,    \* data.choices[0].message.content of the response being normalized
    path,       \* which return statement produced the record: "none", "json", "text"
    result,     \* the MathProblemAnalysis returned by generateAIContent
    prev,       \* the record whose JSON serialization was fed back as content
    feeds,      \* how many times a returned record was serialized and fed back
    explanation,     \* CodeGenerator state: useState("")
    misconceptions,  \* CodeGenerator state: useState(["", "", ""])
    questionNumber,  \* CodeGenerator state: useState(1)
    generatedCode,   \* CodeGenerator state: useState({})
    currentTab,      \* CodeGenerator state: useState("question")
    codeTab,         \* CodeGenerator state: useState("feedback_code")
    revision,        \* which page is running: "current" (CodeGenerator.tsx alone) or
                     \* "previous" (Index.tsx with the CodeGenerator of part_000 and AIGenerator)
    apiKey,          \* form state: useState("")
    questionText,    \* form state: useState("")
    questionImage,   \* form state: useState(null); TRUE when a file is chosen
    aiPrompt,        \* form state: useState(""), the prompt field of AIGenerator
    selectedModel,   \* CodeGenerator state: useState("")
    questionType,    \* CodeGenerator state: useState("multiple-choice")
    correctAnswer,   \* form state: useState("A")
    options,         \* form state: useState({A: "", B: "", C: "", D: ""})
    loading,         \* CodeGenerator state: useState(false)
    indexLoading,    \* Index state: useState(false), the loading prop of AIGenerator
    calls,           \* the invocations of generateAIContent, in the order they started
    toasts,          \* the messages the latest handler step showed
    numberOfOptions,   \* CodeGenerator state: useState(4)
    teksStandard,      \* CodeGenerator state: useState("")
    availableModels,   \* CodeGenerator state: useState([])
    showModelSelector, \* CodeGenerator state: useState(false)
    loadingModels,     \* CodeGenerator state: useState(false)
    modelFetches,      \* the runs of the fetchModels effect that await fetchAvailableModels
    limit              \* how many generation requests and model-list fetches a behaviour starts

nvars == <<pc, content, path, result, prev, feeds>>
gvars == <<explanation, misconceptions, questionNumber, generatedCode, currentTab, codeTab>>
rvars == <<revision, apiKey, questionText, questionImage, aiPrompt, selectedModel, questionType,
           correctAnswer, options, loading, indexLoading, calls, toasts>>
mvars == <<numberOfOptions, teksStandard, availableModels, showModelSelector, loadingModels, modelFetches, limit>>
vars == <<pc, content, path, result, prev, feeds,
          explanation, misconceptions, questionNumber, generatedCode, currentTab, codeTab,
          revision, apiKey, questionText, questionImage, aiPrompt, selectedModel, questionType,
          correctAnswer, options, loading, indexLoading, calls, toasts,
          numberOfOptions, teksStandard, availableModels, showModelSelector, loadingModels,
          modelFetches, limit>>

(***************************************************************************)
(* Characters                                                              *)
(***************************************************************************)
UpperCase == <<"A","B","C","D","E","F","G","H","I","J","K","L","M",
               "N","O","P","Q","R","S","T","U","V","W","X","Y","Z">>
LowerCase == <<"a","b","c","d","e","f","g","h","i","j","k","l","m",
               "n","o","p","q","r","s","t","u","v","w","x","y","z">>
Digits == <<"0","1","2","3","4","5","6","7","8","9">>

Range(f) == {f[i] : i \in DOMAIN f}
UpperSet == Range(UpperCase)
LowerSet == Range(LowerCase)
DigitSet == Range(Digits)

\* String.prototype.toUpperCase / the i flag of a regular expression, per character
UpperOf == [c \in LowerSet |-> UpperCase[CHOOSE i \in 1..26 : LowerCase[i] = c]]
LowerOf == [c \in UpperSet |-> LowerCase[CHOOSE i \in 1..26 : UpperCase[i] = c]]
DigitValue == [c \in DigitSet |-> (CHOOSE i \in 1..10 : Digits[i] = c) - 1]

toUpperCase(c) == IF c \in LowerSet THEN UpperOf[c] ELSE c
FoldCase(c) == IF c \in UpperSet THEN LowerOf[c] ELSE c

\* \s of a regular expression, String.prototype.trim and JSON whitespace
WhiteSpace == {" ", "\n", "\t"}

\* the least index of hits, or none when there is no hit
FirstIndex(hits, none) ==
    IF hits = {} THEN none ELSE CHOOSE j \in hits : \A m \in hits : j <= m

\* the first index >= i of s whose character is not in set (Len(s) + 1 if none)
SkipWhile(s, i, set) == FirstIndex({j \in i..Len(s) : s[j] \notin set}, Len(s) + 1)

\* the first index >= i of s whose character is in set (Len(s) + 1 if none)
SkipUntil(s, i, set) == FirstIndex({j \in i..Len(s) : s[j] \in set}, Len(s) + 1)

\* w occurs in s at index i
StartsWithAt(s, i, w) ==
    /\ i + Len(w) - 1 <= Len(s)
    /\ \A k \in 1..Len(w) : s[i + k - 1] = w[k]

\* w (lower case) occurs in s at index i, ignoring case
StartsWithAtCI(s, i, w) ==
    /\ i + Len(w) - 1 <= Len(s)
    /\ \A k \in 1..Len(w) : FoldCase(s[i + k - 1]) = w[k]

\* /w/i.test(s)
TestCI(s, w) == \E i \in 1..Len(s) : StartsWithAtCI(s, i, w)

\* /w1|w2|.../i.test(s)
TestAnyCI(s, words) == \E w \in words : TestCI(s, w)

\* String.prototype.trim
trim(s) ==
    LET a == SkipWhile(s, 1, WhiteSpace)
        \* the white space at the end, counted from the last character
        z == FirstIndex({k \in 1..Len(s) : s[Len(s) + 1 - k] \notin WhiteSpace}, Len(s) + 1)
    IN  IF a > Len(s) THEN <<>> ELSE SubSeq(s, a, Len(s) + 1 - z)

(***************************************************************************)
(* JavaScript values, as JSON.parse produces them                          *)
(***************************************************************************)
Undefined == [t |-> "undefined"]
JNull == [t |-> "null"]
JBool(b) == [t |-> "bool", b |-> b]
JNum(n) == [t |-> "num", n |-> n]
\* the number Infinity
JInfinity == [t |-> "infinity"]
JStr(s) == [t |-> "str", s |-> s]
JArr(a) == [t |-> "arr", a |-> a]
\* an object: its own keys in insertion order, and their values
JObj(k, v) == [t |-> "obj", k |-> k, v |-> v]

\* v.key for a value v that is neither null nor undefined
Get(v, key) ==
    IF v.t = "obj" /\ \E i \in 1..Len(v.k) : v.k[i] = key
    THEN v.v[CHOOSE i \in 1..Len(v.k) : v.k[i] = key]
    ELSE Undefined

\* obj[key] = val while parsing: a repeated key keeps its place and takes the last value
Put(obj, key, val) ==
    IF \E i \in 1..Len(obj.k) : obj.k[i] = key
    THEN JObj(obj.k, [obj.v EXCEPT ![CHOOSE i \in 1..Len(obj.k) : obj.k[i] = key] = val])
    ELSE JObj(Append(obj.k, key), Append(obj.v, val))

\* ToBoolean, as || applies it
Truthy(v) ==
    CASE v.t = "undefined" -> FALSE
      [] v.t = "null" -> FALSE
      [] v.t = "bool" -> v.b
      [] v.t = "num" -> v.n # 0
      [] v.t = "str" -> v.s # <<>>
      [] OTHER -> TRUE

\* a || b
OrElse(a, b) == IF Truthy(a) THEN a ELSE b

(***************************************************************************)
(* JSON.parse (objects, arrays, strings with the escapes \" \\ \/ \n \t,   *)
(* non-negative integers with an optional exponent, true, false, null)     *)
(***************************************************************************)
ParseFail == [ok |-> FALSE, v |-> Undefined, i |-> 0]
ParseOk(v, i) == [ok |-> TRUE, v |-> v, i |-> i]

EscapeChars == {"\"", "\\", "/", "n", "t"}
Unescape(c) == IF c = "n" THEN "\n" ELSE IF c = "t" THEN "\t" ELSE c

RECURSIVE DigitsValue(_, _, _)
\* the number written by the digits s[i..j-1], after acc
DigitsValue(s, i, j) ==
    IF i >= j THEN 0
    ELSE DigitsValue(s, i, j - 1) * 10 + DigitValue[s[j - 1]]

RECURSIVE ParseChars(_, _, _)
\* the characters of a string literal from index i, its opening quote consumed:
\* plain characters up to the next quote, backslash or control character
ParseChars(s, i, acc) ==
    LET j == SkipUntil(s, i, {"\"", "\\", "\n", "\t"})
        plain == acc \o SubSeq(s, i, j - 1)
    IN  IF j > Len(s) THEN ParseFail
        ELSE IF s[j] = "\"" THEN ParseOk(JStr(plain), j + 1)
        ELSE IF s[j] = "\\"
             THEN IF j + 1 <= Len(s) /\ s[j + 1] \in EscapeChars
                  THEN ParseChars(s, j + 2, Append(plain, Unescape(s[j + 1])))
                  ELSE ParseFail
        ELSE ParseFail   \* a raw control character

\* the largest power of ten a double holds
DoubleExponent == 308

RECURSIVE Pow10(_)
Pow10(e) == IF e = 0 THEN 1 ELSE 10 * Pow10(e - 1)

\* digits, then an optional e or E, an optional + and digits; a number of 10^309 or
\* more is Infinity
ParseNumber(s, i) ==
    LET j == IF s[i] = "0" THEN i + 1 ELSE SkipWhile(s, i, DigitSet)
        n == DigitsValue(s, i, j)
        hasExponent == j <= Len(s) /\ s[j] \in {"e", "E"}
        k == IF hasExponent /\ j + 1 <= Len(s) /\ s[j + 1] = "+" THEN j + 2 ELSE j + 1
        l == SkipWhile(s, k, DigitSet)
        e == DigitsValue(s, k, l)
    IN  IF ~hasExponent THEN ParseOk(JNum(n), j)
        ELSE IF l = k THEN ParseFail
        ELSE IF n = 0 THEN ParseOk(JNum(0), l)
        ELSE IF (j - i - 1) + e > DoubleExponent THEN ParseOk(JInfinity, l)
        ELSE ParseOk(JNum(n * Pow10(e)), l)

RECURSIVE ParseValue(_, _)
RECURSIVE ParseElements(_, _, _)
RECURSIVE ParseMembers(_, _, _)

\* the elements of an array from index i (at a value), after the elements acc
ParseElements(s, i, acc) ==
    LET r == ParseValue(s, i)
        k == SkipWhile(s, r.i, WhiteSpace)
    IN  IF ~r.ok \/ k > Len(s) THEN ParseFail
        ELSE IF s[k] = "]" THEN ParseOk(JArr(Append(acc, r.v)), k + 1)
        ELSE IF s[k] = "," THEN
             ParseElements(s, SkipWhile(s, k + 1, WhiteSpace), Append(acc, r.v))
        ELSE ParseFail

\* the members of an object from index i (at a key), into the object obj
ParseMembers(s, i, obj) ==
    IF i > Len(s) \/ s[i] # "\"" THEN ParseFail
    ELSE LET key == ParseChars(s, i + 1, <<>>)
             c == SkipWhile(s, key.i, WhiteSpace)
         IN  IF ~key.ok \/ c > Len(s) \/ s[c] # ":" THEN ParseFail
             ELSE LET r == ParseValue(s, SkipWhile(s, c + 1, WhiteSpace))
                      k == SkipWhile(s, r.i, WhiteSpace)
                  IN  IF ~r.ok \/ k > Len(s) THEN ParseFail
                      ELSE IF s[k] = "}" THEN ParseOk(Put(obj, key.v.s, r.v), k + 1)
                      ELSE IF s[k] = "," THEN
                           ParseMembers(s, SkipWhile(s, k + 1, WhiteSpace),
                                        Put(obj, key.v.s, r.v))
                      ELSE ParseFail

\* the JSON value that starts at index i of s
ParseValue(s, i) ==
    IF i > Len(s) THEN ParseFail
    ELSE IF StartsWithAt(s, i, <<"n","u","l","l">>) THEN ParseOk(JNull, i + 4)
    ELSE IF StartsWithAt(s, i, <<"t","r","u","e">>) THEN ParseOk(JBool(TRUE), i + 4)
    ELSE IF StartsWithAt(s, i, <<"f","a","l","s","e">>) THEN ParseOk(JBool(FALSE), i + 5)
    ELSE IF s[i] \in DigitSet THEN ParseNumber(s, i)
    ELSE IF s[i] = "\"" THEN ParseChars(s, i + 1, <<>>)
    ELSE IF s[i] = "["
         THEN LET j == SkipWhile(s, i + 1, WhiteSpace)
              IN  IF j <= Len(s) /\ s[j] = "]" THEN ParseOk(JArr(<<>>), j + 1)
                  ELSE ParseElements(s, j, <<>>)
    ELSE IF s[i] = "{"
         THEN LET j == SkipWhile(s, i + 1, WhiteSpace)
              IN  IF j <= Len(s) /\ s[j] = "}" THEN ParseOk(JObj(<<>>, <<>>), j + 1)
                  ELSE ParseMembers(s, j, JObj(<<>>, <<>>))
    ELSE ParseFail

\* JSON.parse(s): ok is FALSE where it throws a SyntaxError
JSONParse(s) ==
    LET r == ParseValue(s, SkipWhile(s, 1, WhiteSpace))
    IN  IF r.ok /\ SkipWhile(s, r.i, WhiteSpace) = Len(s) + 1
        THEN [ok |-> TRUE, v |-> r.v]
        ELSE [ok |-> FALSE, v |-> Undefined]

(***************************************************************************)
(* JSON.stringify                                                          *)
(***************************************************************************)

RECURSIVE Join(_, _)
\* Array.prototype.join
Join(ss, sep) ==
    IF ss = <<>> THEN <<>>
    ELSE IF Len(ss) = 1 THEN ss[1]
    ELSE ss[1] \o sep \o Join(Tail(ss), sep)

QuoteChar(c) ==
    CASE c = "\"" -> <<"\\", "\"">>
      [] c = "\\" -> <<"\\", "\\">>
      [] c = "\n" -> <<"\\", "n">>
      [] c = "\t" -> <<"\\", "t">>
      [] OTHER -> <<c>>

RECURSIVE QuoteFrom(_, _)
\* the characters of s from index i, those that need it escaped
QuoteFrom(s, i) ==
    LET j == SkipUntil(s, i, {"\"", "\\", "\n", "\t"})
    IN  IF j > Len(s) THEN SubSeq(s, i, Len(s))
        ELSE SubSeq(s, i, j - 1) \o QuoteChar(s[j]) \o QuoteFrom(s, j + 1)

\* the JSON string literal of the text s
Quote(s) == <<"\"">> \o QuoteFrom(s, 1) \o <<"\"">>

RECURSIVE NumberToText(_)
NumberToText(n) ==
    IF n < 10 THEN <<Digits[n + 1]>>
    ELSE NumberToText(n \div 10) \o <<Digits[(n % 10) + 1]>>

RECURSIVE Stringify(_)
\* JSON.stringify(v) of a value that holds no undefined
Stringify(v) ==
    CASE v.t = "null" -> <<"n","u","l","l">>
      [] v.t = "bool" -> IF v.b THEN <<"t","r","u","e">> ELSE <<"f","a","l","s","e">>
      [] v.t = "num" -> NumberToText(v.n)
      [] v.t = "infinity" -> <<"n","u","l","l">>
      [] v.t = "str" -> Quote(v.s)
      [] v.t = "arr" ->
           <<"[">> \o Join([i \in 1..Len(v.a) |-> Stringify(v.a[i])], <<",">>) \o <<"]">>
      [] v.t = "obj" ->
           <<"{">> \o Join([i \in 1..Len(v.k) |->
                              Quote(v.k[i]) \o <<":">> \o Stringify(v.v[i])], <<",">>)
                   \o <<"}">>

(***************************************************************************)
(* The regular expressions of parseAIResponse.  A matcher takes a text and *)
(* an index and gives the index after the match, or 0 when the expression  *)
(* does not match there.                                                   *)
(***************************************************************************)
\* #+\s+ at index j
HeadingEnd(s, j) ==
    LET k == SkipWhile(s, j, {"#"})
        l == SkipWhile(s, k, WhiteSpace)
    IN  IF k > j /\ l > k THEN l ELSE 0

\* \d+\.\s+ at index j
NumberedEnd(s, j) ==
    LET k == SkipWhile(s, j, DigitSet)
        l == SkipWhile(s, k + 1, WhiteSpace)
    IN  IF k > j /\ k <= Len(s) /\ s[k] = "." /\ l > k + 1 THEN l ELSE 0

\* (?:\d+\.|\*|\-)\s+ at index j
ItemEnd(s, j) ==
    LET k == IF j <= Len(s) /\ s[j] \in {"*", "-"} THEN j + 1
             ELSE LET d == SkipWhile(s, j, DigitSet)
                  IN  IF d > j /\ d <= Len(s) /\ s[d] = "." THEN d + 1 ELSE 0
        l == SkipWhile(s, k, WhiteSpace)
    IN  IF k > 0 /\ l > k THEN l ELSE 0

\* the first of the candidate ends that is a match
FirstMatch(ends) ==
    IF \E i \in 1..Len(ends) : ends[i] > 0
    THEN ends[CHOOSE i \in 1..Len(ends) :
                 ends[i] > 0 /\ \A j \in 1..(i - 1) : ends[j] = 0]
    ELSE 0

\* /(?:^|\n)#+\s+|(?:^|\n)\d+\.\s+/ at index q; ^ is the start of the text
SectionMarkerAt(s, q) ==
    LET atStart == q = 1
        afterNewline == s[q] = "\n"
    IN  FirstMatch(<<IF atStart THEN HeadingEnd(s, q) ELSE 0,
                     IF afterNewline THEN HeadingEnd(s, q + 1) ELSE 0,
                     IF atStart THEN NumberedEnd(s, q) ELSE 0,
                     IF afterNewline THEN NumberedEnd(s, q + 1) ELSE 0>>)

\* /(?:\n|^)(?:\d+\.|\*|\-)\s+/ at index q
ItemMarkerAt(s, q) ==
    FirstMatch(<<IF s[q] = "\n" THEN ItemEnd(s, q + 1) ELSE 0,
                 IF q = 1 THEN ItemEnd(s, q) ELSE 0>>)

\* /\n\n+/ at index q
ParagraphBreakAt(s, q) ==
    IF s[q] = "\n" /\ q + 1 <= Len(s) /\ s[q + 1] = "\n"
    THEN SkipWhile(s, q, {"\n"})
    ELSE 0

MatchAt(kind, s, q) ==
    CASE kind = "section" -> SectionMarkerAt(s, q)
      [] kind = "item" -> ItemMarkerAt(s, q)
      [] kind = "paragraph" -> ParagraphBreakAt(s, q)

RECURSIVE SplitFrom(_, _, _)
\* String.prototype.split(regexp) from p, the end of the last separator: the next
\* separator is the first match at an index q >= p (one that ends at p is skipped)
SplitFrom(kind, s, p) ==
    LET q == FirstIndex({j \in p..Len(s) : MatchAt(kind, s, j) \notin {0, p}}, Len(s) + 1)
    IN  IF q > Len(s) THEN <<SubSeq(s, p, Len(s))>>
        ELSE <<SubSeq(s, p, q - 1)>> \o SplitFrom(kind, s, MatchAt(kind, s, q))

split(s, kind) == SplitFrom(kind, s, 1)

\* section.split('\n')[0]
FirstLine(s) == SubSeq(s, 1, SkipUntil(s, 1, {"\n"}) - 1)

\* section.replace(/^[^\n]+\n/, '')
RemoveFirstLine(s) ==
    LET n == Len(FirstLine(s))
    IN  IF n > 0 /\ n < Len(s) THEN SubSeq(s, n + 2, Len(s)) ELSE s

\* Array.prototype.find: the first text of ss at an index of hits, the indexes that
\* satisfy the test; <<>> stands for undefined (no text that satisfies one of the
\* tests used here is empty)
Find(ss, hits) == IF hits = {} THEN <<>> ELSE ss[FirstIndex(hits, 0)]

(***************************************************************************)
(* parseAIResponse: the free-text fallback                                 *)
(***************************************************************************)
CorrectAnswerPhrase == <<"c","o","r","r","e","c","t"," ","a","n","s","w","e","r">>
ExplanationWords == {<<"e","x","p","l","a","n","a","t","i","o","n">>,
                     <<"s","o","l","u","t","i","o","n">>,
                     <<"s","o","l","v","i","n","g">>,
                     <<"s","t","e","p","s">>}
NotExplanationWords == {<<"a","n","s","w","e","r">>,
                        <<"c","o","r","r","e","c","t">>,
                        <<"m","i","s","c","o","n","c","e","p","t","i","o","n">>,
                        <<"m","i","s","t","a","k","e">>,
                        <<"e","r","r","o","r">>}
MisconceptionWords == {<<"m","i","s","c","o","n","c","e","p","t","i","o","n">>,
                       <<"m","i","s","t","a","k","e">>,
                       <<"e","r","r","o","r">>,
                       <<"c","o","n","f","u","s","i","o","n">>}
ParagraphWords == {<<"m","i","s","c","o","n","c","e","p","t","i","o","n">>,
                   <<"m","i","s","t","a","k","e">>,
                   <<"e","r","r","o","r">>}

\* the number of misconception slots of a record
MisconceptionSlots == 3
\* section.length > 100
SubstantialLength == 100
\* paragraph.trim().length > 50
ParagraphLength == 50

\* answerMatch with the expression written without its i flag
answerMatchCaseSensitive(response) ==
    LET letterAt(i) ==
            IF StartsWithAt(response, i, CorrectAnswerPhrase)
            THEN LET j == i + Len(CorrectAnswerPhrase)
                     k == IF j <= Len(response) /\ response[j] = ":" THEN j + 1 ELSE j
                     l == SkipWhile(response, k, WhiteSpace)
                 IN  IF l <= Len(response) /\ response[l] \in UpperSet THEN l ELSE 0
            ELSE 0
        hits == {i \in 1..Len(response) : letterAt(i) > 0}
    IN  IF hits = {} THEN <<>>
        ELSE <<response[letterAt(CHOOSE i \in hits : \A j \in hits : i <= j)]>>

\* /correct answer:?\s*([A-Z])/i at index i: the index of the captured letter, or 0
AnswerLetterAt(s, i) ==
    IF StartsWithAtCI(s, i, CorrectAnswerPhrase)
    THEN LET j == i + Len(CorrectAnswerPhrase)
             k == IF j <= Len(s) /\ s[j] = ":" THEN j + 1 ELSE j
             l == SkipWhile(s, k, WhiteSpace)
         IN  IF l <= Len(s) /\ FoldCase(s[l]) \in LowerSet THEN l ELSE 0
    ELSE 0

\* response.match(/correct answer:?\s*([A-Z])/i): group 1 of the leftmost match,
\* <<>> when there is no match
answerMatch(response) ==
    LET hits == {i \in 1..Len(response) : AnswerLetterAt(response, i) > 0}
    IN  IF hits = {} THEN <<>>
        ELSE <<response[AnswerLetterAt(response,
                            CHOOSE i \in hits : \A j \in hits : i <= j)]>>

\* explanationOf without the loop over the substantial sections
explanationOfSectionOnly(sections) ==
    LET explanationSection ==
            Find(sections, {i \in 1..Len(sections) :
                               TestAnyCI(FirstLine(sections[i]), ExplanationWords)})
    IN  IF explanationSection # <<>> THEN trim(RemoveFirstLine(explanationSection))
        ELSE <<>>

\* explanationOf with the loop of lines 239-244 testing the length alone
explanationOfAnySubstantial(sections) ==
    LET explanationSection ==
            Find(sections, {i \in 1..Len(sections) :
                               TestAnyCI(FirstLine(sections[i]), ExplanationWords)})
        substantial ==
            Find(sections, {i \in 1..Len(sections) : Len(sections[i]) > SubstantialLength})
    IN  IF explanationSection # <<>> THEN trim(RemoveFirstLine(explanationSection))
        ELSE trim(substantial)

\* result.explanation, lines 230-245
explanationOf(sections) ==
    LET explanationSection ==
            Find(sections, {i \in 1..Len(sections) :
                               TestAnyCI(FirstLine(sections[i]), ExplanationWords)})
        substantial ==
            Find(sections, {i \in 1..Len(sections) :
                               /\ ~TestAnyCI(FirstLine(sections[i]), NotExplanationWords)
                               /\ Len(sections[i]) > SubstantialLength})
    IN  IF explanationSection # <<>> THEN trim(RemoveFirstLine(explanationSection))
        ELSE trim(substantial)

\* FillSlots with the loop running to ss.length instead of Math.min(3, ss.length)
FillEverySlot(init, ss) ==
    [i \in 1..(IF Len(ss) > Len(init) THEN Len(ss) ELSE Len(init)) |->
        IF i <= Len(ss) THEN ss[i] ELSE init[i]]

\* the first n texts of ss over the slots of init (result.misconceptions[i] = ss[i])
FillSlots(init, ss) ==
    [i \in 1..Len(init) |-> IF i <= Len(ss) THEN ss[i] ELSE init[i]]

\* extractedMisconceptions, lines 252-260 (<<>> without a misconception section)
extractedMisconceptions(sections) ==
    LET misconceptionSection ==
            Find(sections, {i \in 1..Len(sections) :
                               TestAnyCI(FirstLine(sections[i]), MisconceptionWords)})
        misconceptionItems == split(misconceptionSection, "item")
        trimmed == [i \in 1..(Len(misconceptionItems) - 1) |-> trim(misconceptionItems[i + 1])]
    IN  IF misconceptionSection = <<>> THEN <<>>
        ELSE SelectSeq(trimmed, LAMBDA item : Len(item) > 0)

\* a variant that keeps every paragraph that is long enough, whatever its words
paragraphsOfAnyWords(response) ==
    SelectSeq(split(response, "paragraph"),
              LAMBDA paragraph : Len(trim(paragraph)) > ParagraphLength)

\* paragraphs, lines 270-272
paragraphs(response) ==
    SelectSeq(split(response, "paragraph"),
              LAMBDA paragraph : /\ Len(trim(paragraph)) > ParagraphLength
                                 /\ TestAnyCI(paragraph, ParagraphWords))

Empty3 == [i \in 1..MisconceptionSlots |-> <<>>]

\* a variant that fills the slots the list items left free with paragraphs
misconceptionsOfMerged(response, sections) ==
    LET listed == extractedMisconceptions(sections)
        paras == paragraphs(response)
    IN  FillSlots(Empty3, listed \o [i \in 1..Len(paras) |-> trim(paras[i])])

\* result.misconceptions, lines 247-278
misconceptionsOf(response, sections) ==
    LET listed == FillSlots(Empty3, extractedMisconceptions(sections))
        paras == paragraphs(response)
    IN  IF \A i \in 1..Len(listed) : listed[i] = <<>>
        THEN FillSlots(listed, [i \in 1..Len(paras) |-> trim(paras[i])])
        ELSE listed

\* a MathProblemAnalysis; its fields hold JavaScript values
Analysis(e, m, c) == [explanation |-> e, misconceptions |-> m, correctAnswer |-> c]

\* no record: the call has not returned
NoAnalysis == Analysis(Undefined, Undefined, Undefined)

parseAIResponse(response) ==
    LET letter == answerMatch(response)
        sections == split(response, "section")
        ms == misconceptionsOf(response, sections)
    IN  Analysis(JStr(explanationOf(sections)),
                 JArr([i \in 1..Len(ms) |-> JStr(ms[i])]),
                 IF letter # <<>> THEN JStr(<<toUpperCase(letter[1])>>) ELSE Undefined)

(***************************************************************************)
(* generateAIContent: the structured attempt on the first choice's content *)
(***************************************************************************)
KeyExplanation == <<"e","x","p","l","a","n","a","t","i","o","n">>
KeyMisconceptions == <<"m","i","s","c","o","n","c","e","p","t","i","o","n","s">>
KeyCorrectAnswer == <<"c","o","r","r","e","c","t","A","n","s","w","e","r">>
KeyLength == <<"l","e","n","g","t","h">>

\* v.length of a truthy value
LengthOf(v) ==
    CASE v.t = "arr" -> JNum(Len(v.a))
      [] v.t = "str" -> JNum(Len(v.s))
      [] v.t = "obj" -> Get(v, KeyLength)
      [] OTHER -> Undefined

\* ToNumber(text) < 3 for a text of digits and white space (NaN compares false)
TextLessThan(s, n) ==
    LET d == trim(s)
    IN  /\ \A i \in 1..Len(d) : d[i] \in DigitSet
        /\ DigitsValue(d, 1, Len(d) + 1) < n

\* x < n, the abstract relational comparison of a value with a number
LessThan(x, n) ==
    CASE x.t = "num" -> x.n < n
      [] x.t = "null" -> 0 < n
      [] x.t = "bool" -> (IF x.b THEN 1 ELSE 0) < n
      [] x.t = "str" -> TextLessThan(x.s, n)
      [] x.t = "arr" ->
           IF x.a = <<>> THEN 0 < n
           ELSE /\ Len(x.a) = 1
                /\ CASE x.a[1].t = "num" -> x.a[1].n < n
                     [] x.a[1].t = "str" -> TextLessThan(x.a[1].s, n)
                     [] x.a[1].t = "null" -> 0 < n
                     [] OTHER -> FALSE
      [] OTHER -> FALSE    \* Infinity; undefined and objects convert to NaN

\* PadMisconceptions with an if in place of the while
PadOnce(a) == IF Len(a) < 3 THEN Append(a, JStr(<<>>)) ELSE a

RECURSIVE PadMisconceptions(_)
\* while (result.misconceptions.length < 3) result.misconceptions.push('')
PadMisconceptions(a) ==
    IF Len(a) < MisconceptionSlots THEN PadMisconceptions(Append(a, JStr(<<>>))) ELSE a

Thrown == [threw |-> TRUE, value |-> Undefined]
Returned(r) == [threw |-> FALSE, value |-> r]

\* BuildResult without the default for a missing misconceptions field
BuildResultNoDefault(jsonResponse) ==
    LET r == Analysis(OrElse(Get(jsonResponse, KeyExplanation), JStr(<<>>)),
                      Get(jsonResponse, KeyMisconceptions),
                      Get(jsonResponse, KeyCorrectAnswer))
    IN  IF r.misconceptions.t \in {"undefined", "null"} THEN Thrown
        ELSE IF LessThan(LengthOf(r.misconceptions), MisconceptionSlots)
        THEN IF r.misconceptions.t = "arr"
             THEN Returned([r EXCEPT !.misconceptions = JArr(PadMisconceptions(@.a))])
             ELSE Thrown
        ELSE Returned(r)

\* BuildResult with the padding written as do { push('') } while (length < 3)
BuildResultPushFirst(jsonResponse) ==
    LET r == Analysis(OrElse(Get(jsonResponse, KeyExplanation), JStr(<<>>)),
                      OrElse(Get(jsonResponse, KeyMisconceptions), JArr(<<>>)),
                      Get(jsonResponse, KeyCorrectAnswer))
    IN  IF r.misconceptions.t = "arr"
        THEN Returned([r EXCEPT !.misconceptions =
                                   JArr(PadMisconceptions(Append(@.a, JStr(<<>>))))])
        ELSE Thrown

\* the record built from the parsed value, lines 187-200; it throws a TypeError
\* when push is called on a value that is no array
BuildResult(jsonResponse) ==
    LET r == Analysis(OrElse(Get(jsonResponse, KeyExplanation), JStr(<<>>)),
                      OrElse(Get(jsonResponse, KeyMisconceptions), JArr(<<>>)),
                      Get(jsonResponse, KeyCorrectAnswer))
    IN  IF LessThan(LengthOf(r.misconceptions), MisconceptionSlots)
        THEN IF r.misconceptions.t = "arr"
             THEN Returned([r EXCEPT !.misconceptions = JArr(PadMisconceptions(@.a))])
             ELSE Thrown
        ELSE Returned(r)

\* the inner try block, lines 185-200: JSON.parse throws a SyntaxError, and reading
\* a property of null throws a TypeError
StructuredAttempt(text) ==
    LET parsed == JSONParse(text)
    IN  IF ~parsed.ok THEN Thrown
        ELSE IF parsed.v.t = "null" THEN Thrown
        ELSE BuildResult(parsed.v)

\* Normalize with the inner try around JSON.parse alone: a TypeError raised while
\* the record is built reaches the outer catch and is rethrown
NormalizeCatchingParseOnly(text) ==
    LET parsed == JSONParse(text)
    IN  IF ~parsed.ok
        THEN [threw |-> FALSE, path |-> "text", value |-> parseAIResponse(text)]
        ELSE IF parsed.v.t = "null" \/ BuildResult(parsed.v).threw
        THEN [threw |-> TRUE, path |-> "none", value |-> NoAnalysis]
        ELSE [threw |-> FALSE, path |-> "json", value |-> BuildResult(parsed.v).value]

\* lines 182-205: what generateAIContent does with the content of the first choice
Normalize(text) ==
    LET attempt == StructuredAttempt(text)
    IN  IF ~attempt.threw
        THEN [threw |-> FALSE, path |-> "json", value |-> attempt.value]
        ELSE [threw |-> FALSE, path |-> "text", value |-> parseAIResponse(text)]

\* JSON.stringify of a MathProblemAnalysis: a property that is undefined is left out
StringifyAnalysis(r) ==
    LET all == << <<KeyExplanation, r.explanation>>,
                  <<KeyMisconceptions, r.misconceptions>>,
                  <<KeyCorrectAnswer, r.correctAnswer>> >>
        kept == SelectSeq(all, LAMBDA m : m[2].t # "undefined")
    IN  <<"{">> \o Join([i \in 1..Len(kept) |->
                           Quote(kept[i][1]) \o <<":">> \o Stringify(kept[i][2])], <<",">>)
                \o <<"}">>

(***************************************************************************)
(* The contents a model may return: JSON texts, damaged JSON, and free     *)
(* text with and without headings and list markers                         *)
(***************************************************************************)
\* the most list items a free-text misconception block holds
MaxItems == 4
\* the most entries a JSON misconceptions array holds
MaxListed == 4
\* how often a returned record is serialized and fed back
MaxFeeds == 1

Repeat(s, n) == [i \in 1..(n * Len(s)) |-> s[((i - 1) % Len(s)) + 1]]

ShortParagraph == <<"A","d","d"," ","2",".">>
LongParagraph == Repeat(<<"W","e"," ","a","d","d"," ","t","w","o","."," ">>, 9)
TrickyText == <<"H","e"," ","s","a","i","d"," ","\"","h","i","\"","\n","\\","o","/">>

\* the k-th misconception text, short or longer than a paragraph must be
ItemText(k, long) ==
    <<"e","r","r","o","r"," ">> \o <<UpperCase[k]>> \o
    (IF long THEN <<" ","b","e","c","a","u","s","e"," ","t","h","e"," ","s","i","g","n"," ","o","f"," ","t","h","e"," ","t","e","r","m"," ","w","a","s"," ","f","l","i","p","p","e","d"," ","t","w","i","c","e"," ","h","e","r","e">> ELSE <<>>)

ExplanationValues ==
    {Undefined, JNull, JNum(5), JStr(<<>>), JStr(ShortParagraph), JStr(TrickyText)}

MisconceptionValues ==
    {Undefined, JNull, JNum(0), JNum(5), JBool(TRUE),
     JStr(<<"a","b">>), JStr(<<"a","b","c","d">>),
     JArr(<<JNum(1), JNull>>),
     JObj(<<>>, <<>>), JObj(<<KeyLength>>, <<JNum(1)>>), JObj(<<KeyLength>>, <<JNum(7)>>),
     JObj(<<KeyLength>>, <<JStr(<<"2">>)>>), JObj(<<KeyLength>>, <<JNull>>)}
    \cup {JArr([k \in 1..n |-> JStr(ItemText(k, FALSE))]) : n \in 0..MaxListed}

CorrectAnswerValues == {Undefined, JNull, JNum(2), JStr(<<"C">>), JStr(<<"x","=","2">>)}

\* the object with the given members, a member that is undefined left out
ObjectOf(e, m, c) ==
    LET all == << <<KeyExplanation, e>>, <<KeyMisconceptions, m>>, <<KeyCorrectAnswer, c>> >>
        kept == SelectSeq(all, LAMBDA x : x[2].t # "undefined")
    IN  JObj([i \in 1..Len(kept) |-> kept[i][1]], [i \in 1..Len(kept) |-> kept[i][2]])

ObjectTexts ==
    {Stringify(ObjectOf(e, m, c)) :
        e \in ExplanationValues, m \in MisconceptionValues, c \in CorrectAnswerValues}

SampleObjectText ==
    Stringify(ObjectOf(JStr(ShortParagraph), JArr([k \in 1..2 |-> JStr(ItemText(k, FALSE))]), JStr(<<"C">>)))

\* other JSON values, JSON inside white space, and JSON that does not parse
OtherJsonTexts ==
    {<<"{","\"","e","x","p","l","a","n","a","t","i","o","n","\"",":","1","e","9","9","9",",","\"","m","i","s","c","o","n","c","e","p","t","i","o","n","s","\"",":","[","\"","e","r","r","o","r"," ","A","\"",",","1","E","+","9","9","9","]",",","\"","c","o","r","r","e","c","t","A","n","s","w","e","r","\"",":","1","e","9","9","9","}">>,
     <<"{","\"","e","x","p","l","a","n","a","t","i","o","n","\"",":","\"","A","d","d"," ","2",".","\"",",","\"","m","i","s","c","o","n","c","e","p","t","i","o","n","s","\"",":","5","e","2","}">>,
     <<"{","\"","m","i","s","c","o","n","c","e","p","t","i","o","n","s","\"",":","1","e","9","9","9","}">>,
     <<"1","e","9","9","9">>,
     <<"1","e">>,
     <<"n","u","l","l">>, <<"t","r","u","e">>, <<"5">>, <<"0">>, <<"\"","a","b","c","\"">>, <<"\"","\"">>, <<"[","]">>, <<"[","1","]">>, <<"{","}">>,
     <<"{","\"","e","x","p","l","a","n","a","t","i","o","n","\"",":"," ","\"","A","d","d"," ","2",".","\"",",","\n"," ","\"","m","i","s","c","o","n","c","e","p","t","i","o","n","s","\"",":"," ","["," ","\"","e","r","r","o","r"," ","A","\""," ",",","\t","\"","e","r","r","o","r"," ","B","\""," ","]"," ","}","\n">>,
     <<"{","\"","m","i","s","c","o","n","c","e","p","t","i","o","n","s","\"",":","[","\"","x","\"","]",",","\"","m","i","s","c","o","n","c","e","p","t","i","o","n","s","\"",":","[","\"","y","\"",",","\"","z","\"","]","}">>,
     <<"\n", " ">> \o SampleObjectText \o <<"\n">>,
     <<"H","e","r","e"," ","i","s"," ","t","h","e"," ","J","S","O","N",":"," ">> \o SampleObjectText,
     <<"`","`","`","j","s","o","n","\n">> \o SampleObjectText \o <<"\n","`","`","`">>,
     SubSeq(SampleObjectText, 1, Len(SampleObjectText) - 1),
     <<"{","\"","e","x","p","l","a","n","a","t","i","o","n","\"",":","\"","A","d","d"," ","2",".","\"",",","}">>,
     <<"{","'","e","x","p","l","a","n","a","t","i","o","n","'",":","'","A","d","d"," ","2",".","'","}">>,
     <<"{","\"","e","x","p","l","a","n","a","t","i","o","n","\"",":","\"","A","d","d","\n","2",".","\"","}">>,
     <<"{","\"","e","x","p","l","a","n","a","t","i","o","n","\"",":","\"","A","d","d"," ","2",".","\"",",","\"","m","i","s","c","o","n","c","e","p","t","i","o","n","s","\"",":","[","\"","e","r","r","o","r"," ","A","\"",",","]","}">>}

HeadingMarkers == {<<"#","#"," ">>, <<"#"," ">>}
ExplanationHeadings == {<<"E","x","p","l","a","n","a","t","i","o","n">>, <<"S","o","l","u","t","i","o","n"," ","S","t","e","p","s">>, <<"O","v","e","r","v","i","e","w">>}
MisconceptionHeadings == {<<"M","i","s","c","o","n","c","e","p","t","i","o","n","s">>, <<"C","o","m","m","o","n"," ","M","i","s","t","a","k","e","s">>}
ItemStyles == {"numbered", "dash", "star", "plain"}

\* a heading line and the text below it
Block(marker, heading, text) == marker \o heading \o <<"\n">> \o text

ExplanationBlocks(marker) ==
    {<<>>} \cup {Block(marker, h, p) :
                    h \in ExplanationHeadings, p \in {ShortParagraph, LongParagraph}}

\* n items, marked and separated in the given style
ItemList(style, n, long) ==
    LET mark(k) == CASE style = "numbered" -> <<Digits[k + 1], ".", " ">>
                     [] style = "dash" -> <<"-", " ">>
                     [] style = "star" -> <<"*", " ">>
                     [] style = "plain" -> <<>>
        sep == IF style = "plain" THEN <<"\n", "\n">> ELSE <<"\n">>
    IN  Join([k \in 1..n |-> mark(k) \o ItemText(k, long)], sep)

MisconceptionBlocks(marker) ==
    {<<>>} \cup {Block(marker, h, ItemList(style, n, long)) :
                    h \in MisconceptionHeadings, style \in ItemStyles,
                    n \in 0..MaxItems, long \in BOOLEAN}

\* an explanation block and a misconception block under headings
SectionedTexts ==
    UNION {{Join(SelectSeq(<<e, m>>, LAMBDA b : b # <<>>), <<"\n", "\n">>) :
               e \in ExplanationBlocks(marker), m \in MisconceptionBlocks(marker)} :
           marker \in HeadingMarkers}

\* headings written as numbered lines
NumberedTexts ==
    {Block(<<"1","."," ">>, h, p) \o <<"\n", "\n">> \o Block(<<"2","."," ">>, mh, ItemList(style, n, TRUE)) :
        h \in ExplanationHeadings, p \in {ShortParagraph, LongParagraph},
        mh \in MisconceptionHeadings, style \in {"dash", "plain"}, n \in {1, MaxItems}}

AnswerLines ==
    {<<"C","o","r","r","e","c","t"," ","a","n","s","w","e","r",":"," ","C">>, <<"c","o","r","r","e","c","t"," ","A","n","s","w","e","r",":"," ","c">>, <<"C","O","R","R","E","C","T"," ","A","N","S","W","E","R",":","d">>,
     <<"T","h","e"," ","c","o","r","r","e","c","t"," ","a","n","s","w","e","r"," ","i","s"," ","B",".">>, <<"C","o","r","r","e","c","t"," ","a","n","s","w","e","r",":"," ","B",","," ","n","o","t"," ","c","o","r","r","e","c","t"," ","a","n","s","w","e","r",":"," ","C">>,
     <<"C","o","r","r","e","c","t"," ","a","n","s","w","e","r",":"," ">>, <<"C","o","r","r","e","c","t"," ","a","n","s","w","e","r","s",":"," ","C">>}

SampleSectionedText ==
    Block(<<"#","#"," ">>, <<"E","x","p","l","a","n","a","t","i","o","n">>, ShortParagraph) \o <<"\n", "\n">> \o
    Block(<<"#","#"," ">>, <<"M","i","s","c","o","n","c","e","p","t","i","o","n","s">>, ItemList("dash", 3, FALSE))

\* an answer line alone, above a sectioned text and below one
AnswerTexts ==
    UNION {{a, a \o <<"\n", "\n">> \o SampleSectionedText,
            SampleSectionedText \o <<"\n", "\n">> \o a,
            a \o <<" ">> \o LongParagraph} : a \in AnswerLines}

FirstLines ==
    {<<"T","h","e"," ","s","o","l","u","t","i","o","n"," ","i","s"," ","s","i","m","p","l","e",".">>, <<"W","e"," ","a","d","d"," ","t","w","o"," ","t","o"," ","b","o","t","h"," ","s","i","d","e","s",".">>,
     <<"S","t","u","d","e","n","t","s"," ","m","a","k","e"," ","a","n"," ","e","r","r","o","r"," ","h","e","r","e",".">>, <<"T","h","e"," ","c","o","r","r","e","c","t"," ","a","n","s","w","e","r"," ","i","s"," ","B",".">>,
     <<"E","x","p","l","a","n","a","t","i","o","n">>, <<>>}

Continuations ==
    {<<>>, ShortParagraph, LongParagraph, Repeat(<<" ">>, 101),
     <<"S","t","u","d","e","n","t","s"," ","m","i","g","h","t"," ","d","r","o","p"," ","t","h","e"," ","s","i","g","n",".">>,
     LongParagraph \o <<"\n", "\n">> \o ItemText(1, TRUE) \o <<"\n", "\n">> \o ItemText(2, TRUE)}

\* text without any heading or list marker
UnmarkedTexts ==
    {f \o sep \o c : f \in FirstLines, sep \in {<<" ">>, <<"\n">>}, c \in Continuations}

\* sections without list markers: a long paragraph with 'error' above the misconception
\* section, and a long paragraph under 'Confusion' without any of the paragraph words
ParagraphTexts ==
    {<<"#","#"," ","E","x","p","l","a","n","a","t","i","o","n","\n","A"," ","c","o","m","m","o","n"," ","e","r","r","o","r"," ","i","s"," ","t","o"," ","a","d","d"," ","t","w","o","."," ","W","e"," ","a","d","d"," ","t","w","o","."," ","W","e"," ","a","d","d"," ","t","w","o",".","\n","\n","#","#"," ","M","i","s","c","o","n","c","e","p","t","i","o","n","s","\n","S","t","u","d","e","n","t","s"," ","f","o","r","g","e","t"," ","t","h","e"," ","s","i","g","n",".">>,
     <<"#","#"," ","C","o","m","m","o","n"," ","C","o","n","f","u","s","i","o","n","\n","S","t","u","d","e","n","t","s"," ","o","f","t","e","n"," ","s","u","b","t","r","a","c","t"," ","t","w","o"," ","o","n"," ","o","n","e"," ","s","i","d","e"," ","o","n","l","y",","," ","t","w","i","c","e"," ","o","v","e","r",".">>}

RawTexts ==
    ObjectTexts \cup OtherJsonTexts \cup SectionedTexts \cup NumberedTexts
        \cup AnswerTexts \cup UnmarkedTexts \cup ParagraphTexts

(***************************************************************************)
(* The normalization of a response                                         *)
(***************************************************************************)
\* the object {} of CodeGenerator.tsx line 54
NoCode == [k \in {} |-> <<>>]

\* the array ["", "", ""] of CodeGenerator.tsx lines 58 and 653
NoMisconceptions == <<JStr(<<>>), JStr(<<>>), JStr(<<>>)>>

\* the options object of CodeGenerator.tsx lines 42-47
NoOptions == [k \in {"A", "B", "C", "D"} |-> <<>>]

Init ==
    /\ revision = "current"
    /\ apiKey = ""
    /\ questionText = ""
    /\ questionImage = FALSE
    /\ aiPrompt = ""
    /\ selectedModel = ""
    /\ questionType = "multiple-choice"
    /\ correctAnswer = <<"A">>
    /\ options = NoOptions
    /\ loading = FALSE
    /\ indexLoading = FALSE
    /\ calls = <<>>
    /\ toasts = <<>>
    /\ numberOfOptions = 4
    /\ teksStandard = <<>>
    /\ availableModels = <<>>
    /\ showModelSelector = FALSE
    /\ loadingModels = FALSE
    /\ modelFetches = <<>>
    /\ limit = [calls |-> 0, fetches |-> 0]
    /\ pc = "idle"
    /\ content = <<>>
    /\ path = "none"
    /\ result = NoAnalysis
    /\ prev = NoAnalysis
    /\ feeds = 0
    /\ explanation = <<>>
    /\ misconceptions = NoMisconceptions
    /\ questionNumber = 1
    /\ generatedCode = NoCode
    /\ currentTab = "question"
    /\ codeTab = "feedback_code"

\* what the first choice of the awaited response may carry: any of the contents, or,
\* once a record has been serialized for a next call, the serialized record
Contents == IF feeds = 0 THEN RawTexts ELSE {StringifyAnalysis(prev)}

\* a call of generateAIContent whose response carries text as the first choice's
\* content, lines 182-210: the record is returned, or the error is rethrown
generateAIContent(text) ==
    /\ pc = "idle"
    /\ \E n \in {Normalize(text)} :
          /\ content' = text
          /\ pc' = IF n.threw THEN "thrown" ELSE "returned"
          /\ path' = n.path
          /\ result' = n.value
    /\ UNCHANGED <<prev, feeds>>
    /\ UNCHANGED gvars
    /\ UNCHANGED <<rvars, mvars>>

\* the caller serializes the record it got, for a next call to receive that text
FeedBack ==
    /\ pc = "returned"
    /\ feeds < MaxFeeds
    /\ pc' = "idle"
    /\ prev' = result
    /\ feeds' = feeds + 1
    /\ UNCHANGED <<content, path, result>>
    /\ UNCHANGED gvars
    /\ UNCHANGED <<rvars, mvars>>

NextNormalize ==
    \/ \E text \in Contents : generateAIContent(text)
    \/ FeedBack

SpecNormalize == Init /\ [][NextNormalize]_vars

(***************************************************************************)
(* CodeGenerator: the form state and generateCode                          *)
(*                                                                         *)
(* A code point outside ASCII is one element of a text, written by its     *)
(* number: "U+2705" is the check mark and "U+274C" the cross mark of the    *)
(* feedback template.                                                      *)
(***************************************************************************)

\* the largest number typed into the question number input
MaxQuestionNumber == 2
\* the most misconceptions the Add Misconception button of the previous page makes
MaxMisconceptions == 4

\* s.replace(/"/g, '\\"'): a backslash goes before every double quote, and
\* nothing else of s changes
RECURSIVE ReplaceQuotes(_)
ReplaceQuotes(s) ==
    IF s = <<>> THEN <<>>
    ELSE (IF Head(s) = "\"" THEN <<"\\", "\"">> ELSE <<Head(s)>>) \o ReplaceQuotes(Tail(s))

WhenSubmitted == <<"w","h","e","n"," ","s","u","b","m","i","t","_","b","u","t","t","o","n",".","p","r",
          "e","s","s","C","o","u","n","t",">","0"," ","a","n","d"," ">>
WhenAnswerShown(q) ==
    <<"h","i","d","d","e","n",":"," ","w","h","e","n"," ","(","s","u","b","m","i","t","_",
          "b","u","t","t","o","n",".","p","r","e","s","s","C","o","u","n","t",">","0"," ","a",
          "n","d"," ","q">> \o NumberToText(q)
    \o <<"_","b","t","n","_","a","n","s",".","p","r","e","s","s","C","o","u","n","t",">","0">>
NotMatchesKey(q) == <<"n","o","t","(","q">> \o NumberToText(q) \o <<"_","m","c",".","m","a","t","c","h","e","s","K","e","y",")">>
FalseOtherwiseTrue == <<" ","f","a","l","s","e"," ","o","t","h","e","r","w","i","s","e"," ","t","r","u","e">>
ContentOpen == <<"c","o","n","t","e","n","t",":"," ","\"">>
ContentClose == <<"\"">>

\* lines 123-126
feedbackCode(q) ==
    <<"h","i","d","d","e","n",":"," ","w","h","e","n"," ","s","u","b","m","i","t","_","b",
          "u","t","t","o","n",".","p","r","e","s","s","C","o","u","n","t",">","0"," ","f","a",
          "l","s","e"," ","o","t","h","e","r","w","i","s","e"," ","t","r","u","e","\n","c","o",
          "n","t","e","n","t",":"," ">> \o WhenSubmitted \o <<"q">> \o NumberToText(q)
    \o <<"_","m","c",".","m","a","t","c","h","e","s","K","e","y"," ","\"","c","o","r","r","e",
          "c","t"," ","U+2705","\""," ","\n">> \o WhenSubmitted \o NotMatchesKey(q) \o <<" ","\"","i","n","c","o","r","r","e","c","t"," ","U+274C","\"","\n","o","t","h","e",
          "r","w","i","s","e"," ","\"","\"">>

\* lines 128-129
btnAnsCode(q) ==
    <<"h","i","d","d","e","n",":"," ","w","h","e","n"," ","(","s","u","b","m","i","t","_",
          "b","u","t","t","o","n",".","p","r","e","s","s","C","o","u","n","t",">","0"," ","a",
          "n","d"," ">> \o NotMatchesKey(q) \o <<")">>
    \o FalseOtherwiseTrue \o <<"\n","s","t","y","l","e",":"," ","b","u","t","t","o","n","S","t","y","l","e","s",".",
          "w","h","i","t","e">>

\* lines 131-132
expCode(q, text) ==
    WhenAnswerShown(q) \o <<")">> \o FalseOtherwiseTrue \o <<"\n">>
    \o ContentOpen \o ReplaceQuotes(text) \o ContentClose

\* line 134
ecCode(q) ==
    WhenAnswerShown(q) \o <<" ","a","n","d"," ">> \o NotMatchesKey(q) \o <<")">> \o FalseOtherwiseTrue

\* lines 136-139: the value stored under err_<index + 1>_help
misconceptionCode(q, misconception) ==
    ecCode(q) \o <<"\n">> \o ContentOpen \o ReplaceQuotes(misconception) \o ContentClose

\* the keys `err_${index + 1}_help` of line 137, by index + 1
ErrHelpKeys == <<"err_1_help", "err_2_help", "err_3_help", "err_4_help", "err_5_help", "err_6_help">>

\* the object passed to setGeneratedCode, lines 143-149
GeneratedCodeOf(q, e, ms) ==
    [k \in {"feedback", "btn_ans", "exp", "ec"} \cup {ErrHelpKeys[i] : i \in 1..Len(ms)} |->
        CASE k = "feedback" -> feedbackCode(q)
          [] k = "btn_ans" -> btnAnsCode(q)
          [] k = "exp" -> expCode(q, e)
          [] k = "ec" -> ecCode(q)
          [] OTHER -> misconceptionCode(q, ms[CHOOSE i \in 1..Len(ms) : ErrHelpKeys[i] = k])]

\* what is typed into the explanation and misconception text areas
ExplanationInputs ==
    {<<>>, ShortParagraph, <<"a"," ","\"","b","\""," ","c">>, <<"\\","\"">>, <<"\\">>}
MisconceptionInputs == {<<>>, <<"\"","x","\""," ","\\","\"">>}

\* the question number input, line 302: parseInt(e.target.value) || 1
setQuestionNumber(n) ==
    /\ questionNumber' = (IF n = 0 THEN 1 ELSE n)
    /\ UNCHANGED <<explanation, misconceptions, generatedCode, currentTab, codeTab>>
    /\ UNCHANGED nvars
    /\ UNCHANGED <<rvars, mvars>>

\* the explanation text area, line 489
setExplanation(text) ==
    /\ explanation' = text
    /\ UNCHANGED <<misconceptions, questionNumber, generatedCode, currentTab, codeTab>>
    /\ UNCHANGED nvars
    /\ UNCHANGED <<rvars, mvars>>

\* a misconception text area, lines 508-512
setMisconception(index, text) ==
    /\ index + 1 \in DOMAIN misconceptions
    /\ misconceptions' = [misconceptions EXCEPT ![index + 1] = JStr(text)]
    /\ UNCHANGED <<explanation, questionNumber, generatedCode, currentTab, codeTab>>
    /\ UNCHANGED nvars
    /\ UNCHANGED <<rvars, mvars>>

\* the entries a misconception text area shows are strings; an entry that came from
\* a response may be any JSON value
AreStrings(ms) == \A k \in 1..Len(ms) : ms[k].t = "str"
StringsOf(ms) == [k \in 1..Len(ms) |-> ms[k].s]

\* lines 119-154.  misconception.replace of line 138 is a call on the entry: for an
\* entry that is no string it throws a TypeError, and the handler ends before line 143
generateCode ==
    /\ revision = "current"
    /\ IF AreStrings(misconceptions)
       THEN /\ generatedCode' =
                  GeneratedCodeOf(questionNumber, explanation, StringsOf(misconceptions))
            /\ toasts' = <<"Code generated successfully!">>
            /\ currentTab' = "code"
            /\ codeTab' = "feedback_code"
       ELSE UNCHANGED <<generatedCode, toasts, currentTab, codeTab>>
    /\ UNCHANGED <<explanation, misconceptions, questionNumber>>
    /\ UNCHANGED <<revision, apiKey, questionText, questionImage, aiPrompt, selectedModel,
                   questionType, correctAnswer, options, loading, indexLoading, calls>>
    /\ UNCHANGED <<nvars, mvars>>

\* part_000 lines 71-72 and 74-75
teksCode(teks) ==
    <<"h","i","d","d","e","n",":"," ","w","h","e","n"," ","s","u","b","m","i","t","_","b","u","t","t","o","n",".","p","r","e","s","s","C","o","u","n","t",">","0"," ","f","a","l","s","e"," ","o","t","h","e","r","w","i","s","e"," ","t","r","u","e","\n","c","o","n","t","e","n","t",":"," ","\"">> \o teks \o <<"\"">>
mcCode(answer) ==
    <<"d","i","s","a","b","l","e","C","h","a","n","g","e",":"," ","w","h","e","n"," ","s","u","b","m","i","t","_","b","u","t","t","o","n",".","p","r","e","s","s","C","o","u","n","t",">","0"," ","t","r","u","e"," ","o","t","h","e","r","w","i","s","e"," ","f","a","l","s","e","\n","c","o","r","r","e","c","t",":"," ","\"">> \o answer \o <<"\"">>

\* generateCode of the previous page, part_000 lines 70-112: the snippets of the
\* current one and those of the TEKS standard and of the answer key, one err snippet
\* per misconception the form holds
generateCodePrevious ==
    /\ revision = "previous"
    /\ IF AreStrings(misconceptions)
       THEN /\ generatedCode' =
                  [k \in {"teks", "mc"} |->
                      IF k = "teks" THEN teksCode(teksStandard) ELSE mcCode(correctAnswer)]
                  @@ GeneratedCodeOf(questionNumber, explanation, StringsOf(misconceptions))
            /\ toasts' = <<"Code generated successfully!">>
            /\ codeTab' = "q_code"
       ELSE UNCHANGED <<generatedCode, toasts, codeTab>>
    /\ UNCHANGED <<explanation, misconceptions, questionNumber, currentTab>>
    /\ UNCHANGED <<revision, apiKey, questionText, questionImage, aiPrompt, selectedModel,
                   questionType, correctAnswer, options, loading, indexLoading, calls>>
    /\ UNCHANGED <<nvars, mvars>>

\* the TEKS standard input, line 313 and part_000 line 189
setTeksStandard(text) ==
    /\ teksStandard' = text
    /\ UNCHANGED <<numberOfOptions, availableModels, showModelSelector, loadingModels,
                   modelFetches, limit>>
    /\ UNCHANGED <<nvars, gvars, rvars>>

\* the Add Misconception button of the previous page, part_000 lines 341-350
addMisconception ==
    /\ revision = "previous"
    /\ Len(misconceptions) < MaxMisconceptions
    /\ misconceptions' = Append(misconceptions, JStr(<<>>))
    /\ UNCHANGED <<explanation, questionNumber, generatedCode, currentTab, codeTab>>
    /\ UNCHANGED nvars
    /\ UNCHANGED <<rvars, mvars>>

\* optionLabels, line 62, and part_000 line 45
optionLabels(rev) ==
    IF rev = "current" THEN <<"A", "B", "C", "D", "E", "F", "G", "H", "I", "J">>
    ELSE <<"A", "B", "C", "D", "E", "F", "G", "H">>

\* the option labels the answer selector offers: optionLabels.slice(0, numberOfOptions)
OfferedOptions == {<<optionLabels(revision)[k]>> : k \in 1..numberOfOptions}

\* the slider of lines 381-389, rendered for a multiple-choice question, from 2 to 10,
\* and of part_000 lines 237-246, from 2 to 8
setNumberOfOptions(n) ==
    /\ questionType = "multiple-choice"
    /\ n \in 2..Len(optionLabels(revision))
    /\ numberOfOptions' = n
    /\ UNCHANGED <<teksStandard, availableModels, showModelSelector, loadingModels,
                   modelFetches, limit>>
    /\ UNCHANGED <<nvars, gvars, rvars>>

\* the Correct Answer selector, lines 433-444 and part_000 lines 268-279
setCorrectAnswer(option) ==
    /\ questionType = "multiple-choice"
    /\ option \in OfferedOptions
    /\ correctAnswer' = option
    /\ UNCHANGED <<revision, apiKey, questionText, questionImage, aiPrompt, selectedModel,
                   questionType, options, loading, indexLoading, calls, toasts>>
    /\ UNCHANGED <<nvars, gvars, mvars>>

\* the main tabs, lines 229-234, and the code tabs the TabsList of lines 524-531 offers
setCurrentTab(tab) ==
    /\ currentTab' = tab
    /\ UNCHANGED <<explanation, misconceptions, questionNumber, generatedCode, codeTab>>
    /\ UNCHANGED nvars
    /\ UNCHANGED <<rvars, mvars>>

CodeTabs == {"feedback_code", "btn_code", "exp_code", "err_1_code", "err_2_code"}

setCodeTab(tab) ==
    /\ currentTab = "code"
    /\ tab \in CodeTabs
    /\ codeTab' = tab
    /\ UNCHANGED <<explanation, misconceptions, questionNumber, generatedCode, currentTab>>
    /\ UNCHANGED nvars
    /\ UNCHANGED <<rvars, mvars>>

\* generatedCode[key] || '' of lines 620 and 628
CodeAt(code, key) == IF key \in DOMAIN code THEN code[key] ELSE <<>>

\* the header `// For q${questionNumber}_<slot>\n` of lines 552-628
KeyHeader(q, slot) == <<"/","/"," ","F","o","r"," ","q">> \o NumberToText(q) \o <<"_">> \o slot \o <<"\n">>

\* the text the code panel shows, and its copy button copies, under a code tab (lines
\* 533-631): nothing while no code is generated, else the header of the tab's slot
\* and the stored snippet; a block of lines 613-630 is hidden unless its tab is chosen
Displayed(tab, q, code) ==
    IF DOMAIN code = {} THEN <<>>
    ELSE CASE tab = "feedback_code" -> KeyHeader(q, <<"f","b","k">>) \o CodeAt(code, "feedback")
           [] tab = "btn_code" -> KeyHeader(q, <<"b","t","n","_","a","n","s">>) \o CodeAt(code, "btn_ans")
           [] tab = "exp_code" -> KeyHeader(q, <<"e","x","p">>) \o CodeAt(code, "exp")
           [] tab = "err_1_code" -> KeyHeader(q, <<"e","r","r","_","1","_","h","e","l","p">>) \o CodeAt(code, "err_1_help")
           [] tab = "err_2_code" -> KeyHeader(q, <<"e","r","r","_","2","_","h","e","l","p">>) \o CodeAt(code, "err_2_help")
           [] tab = "err_3_code" -> KeyHeader(q, <<"e","r","r","_","3","_","h","e","l","p">>) \o CodeAt(code, "err_3_help")
           [] OTHER -> <<>>

\* the Reset button, lines 638-654, and part_000 lines 632-650, which empties the
\* misconceptions.  An invocation that is in flight goes on; its record notes that
\* Reset was pressed meanwhile.
Reset ==
    /\ questionNumber' = 1
    /\ teksStandard' = <<>>
    /\ explanation' = <<>>
    /\ generatedCode' = NoCode
    /\ misconceptions' = IF revision = "current" THEN NoMisconceptions ELSE <<>>
    /\ questionText' = ""
    /\ questionImage' = FALSE
    /\ correctAnswer' = <<"A">>
    /\ options' = NoOptions
    /\ calls' = [k \in DOMAIN calls |->
                    IF calls[k].stage \in {"reading", "fetching"}
                    THEN [calls[k] EXCEPT !.reset = TRUE] ELSE calls[k]]
    /\ UNCHANGED <<currentTab, codeTab>>
    /\ UNCHANGED <<revision, apiKey, aiPrompt, selectedModel, questionType, loading,
                   indexLoading, toasts>>
    /\ UNCHANGED <<numberOfOptions, availableModels, showModelSelector, loadingModels,
                   modelFetches, limit>>
    /\ UNCHANGED nvars

NextCode ==
    \/ \E n \in 0..MaxQuestionNumber : setQuestionNumber(n)
    \/ \E text \in ExplanationInputs : setExplanation(text)
    \/ \E index \in 0..2, text \in MisconceptionInputs : setMisconception(index, text)
    \/ generateCode
    \/ Reset
    \/ \E tab \in {"question", "answers", "code"} : setCurrentTab(tab)
    \/ \E tab \in CodeTabs : setCodeTab(tab)

SpecCode == Init /\ [][NextCode]_vars

(***************************************************************************)
(* The generation request: the submit controls of the two pages, the       *)
(* chat-completion request of generateAIContent and its settlement.  The   *)
(* texts of this part are strings, a prompt standing for its whole text.   *)
(***************************************************************************)
\* how many invocations of generateAIContent a behaviour holds
MaxCalls == 1
\* how many runs of the fetchModels effect await their response at a time
MaxFetches == 2

\* the values of the question type selector, CodeGenerator.tsx lines 27-30
QuestionTypes == {"multiple-choice", "equation"}
\* the model that is the default parameter of generateAIContent, and another one
DefaultModel == "anthropic/claude-3-opus:beta"
Models == {DefaultModel, "meta-llama/llama-2-13b-chat"}

\* the prompts of part_001 lines 95-110 and 112-127 and of AIService.ts lines 25-39
MultipleChoicePrompt == "You are an expert math teacher analyzing a multiple-choice math problem. ..."
EquationPrompt == "You are an expert math teacher analyzing an equation problem ..."
GeneralPrompt == "You are an expert math teacher analyzing a math problem. ..."

\* systemPrompt: part_001 lines 93-128 on the current page, AIService.ts lines 25-39
\* on the previous one, which passes no questionType
systemPrompt(rev, prompt, type) ==
    IF rev = "current"
    THEN IF type = "multiple-choice" THEN MultipleChoicePrompt
         ELSE IF type = "equation" THEN EquationPrompt
         ELSE prompt
    ELSE IF prompt # "" THEN prompt ELSE GeneralPrompt

\* what fetch and response.json() may give: fetch rejects, or resolves with a status
\* that is ok or not and a body that is no JSON, null, or an object with or without
\* error, error.message and choices
ResponseBody(json, error, message, choices, text) ==
    [json |-> json, error |-> error, message |-> message, choices |-> choices, content |-> text]

NoBody == ResponseBody("unparsable", "none", "", "none", <<>>)

\* no response yet, or none at all when the image could not be read
NoResponse == [fetch |-> "none", ok |-> FALSE, body |-> NoBody]

\* the contents of a first choice used with the request
ResponseContents == {SampleObjectText, SampleSectionedText, <<"{", "}">>}

Responses ==
    {[fetch |-> "rejected", ok |-> FALSE, body |-> NoBody]}
        \cup {[fetch |-> "resolved", ok |-> FALSE, body |-> b] :
                 b \in {NoBody,
                        ResponseBody("null", "none", "", "none", <<>>),
                        ResponseBody("object", "none", "", "none", <<>>),
                        ResponseBody("object", "object", "", "none", <<>>),
                        ResponseBody("object", "message", "", "none", <<>>),
                        ResponseBody("object", "message", "Rate limit exceeded", "none", <<>>)}}
        \cup {[fetch |-> "resolved", ok |-> TRUE, body |-> b] :
                 b \in {NoBody,
                        ResponseBody("object", "none", "", "none", <<>>),
                        ResponseBody("object", "none", "", "empty", <<>>)}}
        \cup {[fetch |-> "resolved", ok |-> TRUE,
               body |-> ResponseBody("object", "none", "", "content", text)] :
                 text \in ResponseContents}

\* a variant that asks for JSON-object output for the default model only
RequestOfByModel(rev, key, prompt, image, model, type) ==
    [url |-> "https://openrouter.ai/api/v1/chat/completions",
     authorization |-> key,
     model |-> model,
     system |-> systemPrompt(rev, prompt, type),
     user |-> IF image
              THEN "Analyze this math problem image and provide the solution and misconceptions in JSON format:"
              ELSE "Provide a solution and misconceptions for the described math problem in JSON format:",
     image |-> image,
     response_format |-> IF model = DefaultModel THEN "json_object" ELSE "none"]

\* the chat-completion request, part_001 lines 139-169
RequestOf(rev, key, prompt, image, model, type) ==
    [url |-> "https://openrouter.ai/api/v1/chat/completions",
     authorization |-> key,
     model |-> model,
     system |-> systemPrompt(rev, prompt, type),
     user |-> IF image
              THEN "Analyze this math problem image and provide the solution and misconceptions in JSON format:"
              ELSE "Provide a solution and misconceptions for the described math problem in JSON format:",
     image |-> image,
     response_format |-> "json_object"]

\* no request in flight
NoRequest ==
    [url |-> "", authorization |-> "", model |-> "", system |-> "", user |-> "",
     image |-> FALSE, response_format |-> ""]

\* a variant that sends the request before the image is read as well
StartedSending(via, request, type) ==
    [via |-> via,
     stage |-> IF request.image THEN "reading" ELSE "fetching",
     sent |-> 1,
     request |-> request,
     type |-> type,
     response |-> NoResponse,
     message |-> "",
     reset |-> FALSE]

\* an invocation of generateAIContent that has started: with an image it awaits
\* fileToBase64 (lines 134-136) and has sent nothing yet, without one it has sent
\* its request and awaits fetch.  type is the questionType the handler closed over.
Started(via, request, type) ==
    [via |-> via,
     stage |-> IF request.image THEN "reading" ELSE "fetching",
     sent |-> IF request.image THEN 0 ELSE 1,
     request |-> request,
     type |-> type,
     response |-> NoResponse,
     message |-> "",
     reset |-> FALSE]

\* invocation i has settled: its promise is resolved or rejected with the message,
\* and its request is no longer in flight
Settled(i, stage, response, message) ==
    [calls EXCEPT ![i].stage = stage, ![i].request = NoRequest,
                  ![i].response = response, ![i].message = message]

\* the models the provider lists for a key: the default is not the first of one list
\* and is missing from the other
ModelsOf(key) ==
    IF key = "sk-or-1" THEN <<"meta-llama/llama-2-13b-chat", DefaultModel>>
    ELSE <<"meta-llama/llama-2-13b-chat">>

\* the API key input, CodeGenerator.tsx line 246 and part_000 line 369.  On the
\* current page a changed key reruns the fetchModels effect (lines 65-91), which for
\* a key that is not empty sets loadingModels and awaits fetchAvailableModels; the
\* effect closes over the selectedModel of the render it ran in.
setApiKey(key) ==
    /\ apiKey' = key
    /\ IF revision = "current" /\ key # apiKey /\ key # ""
       THEN /\ Len(modelFetches) < limit.fetches
            /\ loadingModels' = TRUE
            /\ modelFetches' = Append(modelFetches, [key |-> key, selectedModel |-> selectedModel])
       ELSE UNCHANGED <<loadingModels, modelFetches>>
    /\ UNCHANGED <<revision, questionText, questionImage, aiPrompt, selectedModel, questionType,
                   correctAnswer, options, loading, indexLoading, calls, toasts>>
    /\ UNCHANGED <<numberOfOptions, teksStandard, availableModels, showModelSelector, limit>>
    /\ UNCHANGED <<nvars, gvars>>

\* a sequence without its i-th element
RemoveAt(seq, i) == SubSeq(seq, 1, i - 1) \o SubSeq(seq, i + 1, Len(seq))

\* models.find(m => m.id === "anthropic/claude-3-opus:beta") || models[0], line 75
defaultModel(models) ==
    IF \E k \in 1..Len(models) : models[k] = DefaultModel THEN DefaultModel ELSE models[1]

\* the awaited fetchAvailableModels of run i of the effect settles, lines 69-87: with
\* the list (part_001 lines 73-78) the effect stores it, chooses a default when the
\* selectedModel it closed over is empty and shows the selector; with an error
\* (part_001 lines 68-71 and 79-83) both catch blocks show their message
fetchModelsSettles(i, listed) ==
    /\ i \in 1..Len(modelFetches)
    /\ modelFetches' = RemoveAt(modelFetches, i)
    /\ loadingModels' = FALSE
    /\ IF listed
       THEN \E models \in {ModelsOf(modelFetches[i].key)} :
               /\ availableModels' = models
               /\ selectedModel' = IF Len(models) > 0 /\ modelFetches[i].selectedModel = ""
                                    THEN defaultModel(models) ELSE selectedModel
               /\ showModelSelector' = TRUE
               /\ UNCHANGED toasts
       ELSE /\ toasts' = <<"Failed to fetch models",
                           "Failed to fetch models. Please check your API key.">>
            /\ UNCHANGED <<availableModels, selectedModel, showModelSelector>>
    /\ UNCHANGED <<revision, apiKey, questionText, questionImage, aiPrompt, questionType,
                   correctAnswer, options, loading, indexLoading, calls>>
    /\ UNCHANGED <<numberOfOptions, teksStandard, limit>>
    /\ UNCHANGED <<nvars, gvars>>

setQuestionText(text) ==
    /\ questionText' = text
    /\ UNCHANGED <<revision, apiKey, questionImage, aiPrompt, selectedModel, questionType,
                   correctAnswer, options, loading, indexLoading, calls, toasts>>
    /\ UNCHANGED <<nvars, gvars, mvars>>

\* a file is chosen, CodeGenerator.tsx lines 107-113
handleImageChange ==
    /\ questionImage' = TRUE
    /\ UNCHANGED <<revision, apiKey, questionText, aiPrompt, selectedModel, questionType,
                   correctAnswer, options, loading, indexLoading, calls, toasts>>
    /\ UNCHANGED <<nvars, gvars, mvars>>

setAiPrompt(prompt) ==
    /\ aiPrompt' = prompt
    /\ UNCHANGED <<revision, apiKey, questionText, questionImage, selectedModel, questionType,
                   correctAnswer, options, loading, indexLoading, calls, toasts>>
    /\ UNCHANGED <<nvars, gvars, mvars>>

\* the model selector, lines 263-279: rendered once a list that is not empty has
\* been stored, with one item per listed model
setSelectedModel(model) ==
    /\ revision = "current"
    /\ showModelSelector
    /\ \E k \in 1..Len(availableModels) : availableModels[k] = model
    /\ selectedModel' = model
    /\ UNCHANGED <<revision, apiKey, questionText, questionImage, aiPrompt, questionType,
                   correctAnswer, options, loading, indexLoading, calls, toasts>>
    /\ UNCHANGED <<nvars, gvars, mvars>>

\* the question type selector of the current page, lines 281-295
setQuestionType(type) ==
    /\ revision = "current"
    /\ questionType' = type
    /\ UNCHANGED <<revision, apiKey, questionText, questionImage, aiPrompt, selectedModel,
                   correctAnswer, options, loading, indexLoading, calls, toasts>>
    /\ UNCHANGED <<nvars, gvars, mvars>>

\* handleGenerateAI of CodeGenerator.tsx, lines 163-188, up to its await; the button
\* that calls it is disabled by line 408
handleGenerateAI ==
    /\ revision = "current"
    /\ ~((~questionImage /\ questionText = "") \/ apiKey = "" \/ selectedModel = "" \/ loading)
    /\ Len(calls) < limit.calls
    /\ IF ~questionImage /\ questionText = ""
       THEN toasts' = <<"Please provide a question image or text">> /\ UNCHANGED <<loading, calls>>
       ELSE IF apiKey = ""
       THEN toasts' = <<"Please enter your OpenRouter API key">> /\ UNCHANGED <<loading, calls>>
       ELSE IF selectedModel = ""
       THEN toasts' = <<"Please select an LLM model">> /\ UNCHANGED <<loading, calls>>
       ELSE /\ toasts' = <<>>
            /\ loading' = TRUE
            /\ calls' = Append(calls, Started("CodeGenerator",
                                   RequestOf(revision, apiKey, aiPrompt, questionImage,
                                             selectedModel, questionType),
                                   questionType))
    /\ UNCHANGED <<revision, apiKey, questionText, questionImage, aiPrompt, selectedModel,
                   questionType, correctAnswer, options, indexLoading>>
    /\ UNCHANGED <<nvars, gvars, mvars>>

\* handleGenerateAI of part_000, lines 121-134, with handleAISubmit of Index.tsx,
\* lines 15-19, which it calls; its button is disabled by part_000 line 396
handleGenerateAIPrevious ==
    /\ revision = "previous"
    /\ ~((~questionImage /\ questionText = "") \/ apiKey = "" \/ loading)
    /\ Len(calls) < limit.calls
    /\ IF ~questionImage /\ questionText = ""
       THEN toasts' = <<"Please provide a question image or text">>
            /\ UNCHANGED <<loading, indexLoading, calls>>
       ELSE IF apiKey = ""
       THEN toasts' = <<"Please enter your OpenRouter API key">>
            /\ UNCHANGED <<loading, indexLoading, calls>>
       ELSE /\ toasts' = <<>>
            /\ loading' = TRUE
            /\ indexLoading' = TRUE
            /\ calls' = Append(calls, Started("CodeGeneratorPrevious",
                                   RequestOf(revision, apiKey, aiPrompt, questionImage,
                                             DefaultModel, "multiple-choice"),
                                   "multiple-choice"))
    /\ UNCHANGED <<revision, apiKey, questionText, questionImage, aiPrompt, selectedModel,
                   questionType, correctAnswer, options>>
    /\ UNCHANGED <<nvars, gvars, mvars>>

\* handleSubmit of AIGenerator.tsx, lines 38-47, with handleAISubmit of Index.tsx;
\* its button is disabled by AIGenerator.tsx line 144.  The fields of AIGenerator
\* are apiKey, prompt and image.
handleSubmit ==
    /\ revision = "previous"
    /\ ~(indexLoading \/ apiKey = "")
    /\ Len(calls) < limit.calls
    /\ IF apiKey = ""
       THEN toasts' = <<"Please enter your OpenRouter API key">>
            /\ UNCHANGED <<indexLoading, calls>>
       ELSE /\ toasts' = <<>>
            /\ indexLoading' = TRUE
            /\ calls' = Append(calls, Started("AIGenerator",
                                   RequestOf(revision, apiKey, aiPrompt, questionImage,
                                             DefaultModel, "multiple-choice"),
                                   "multiple-choice"))
    /\ UNCHANGED <<revision, apiKey, questionText, questionImage, aiPrompt, selectedModel,
                   questionType, correctAnswer, options, loading>>
    /\ UNCHANGED <<nvars, gvars, mvars>>

\* the response reaches line 182 with a first choice
HasContent(response) ==
    /\ response.fetch = "resolved"
    /\ response.ok
    /\ response.body.json = "object"
    /\ response.body.choices = "content"

\* the message of the error that lines 156-180 throw for a response without content
ThrownMessage(response) ==
    IF response.fetch = "rejected" THEN "Failed to fetch"
    ELSE IF response.body.json = "unparsable" THEN "Unexpected token < in JSON at position 0"
    ELSE IF response.body.json = "null" THEN "Cannot read properties of null"
    ELSE IF ~response.ok
    THEN IF response.body.error = "message" /\ response.body.message # ""
         THEN response.body.message
         ELSE "Failed to generate content"
    ELSE "No content generated"

\* what the catch blocks of the callers show after the service's own toast:
\* CodeGenerator.tsx line 211, Index.tsx line 32 and part_000 line 137
CallerToasts(via) ==
    CASE via = "CodeGenerator" -> <<"Failed to generate AI content">>
      [] via = "CodeGeneratorPrevious" ->
            <<"Failed to generate content", "Failed to generate AI content">>
      [] via = "AIGenerator" -> <<"Failed to generate content">>

\* a variant whose catch block also empties the explanation
FailsClearing(i, response, message) ==
    /\ calls' = Settled(i, "thrown", response, message)
    /\ toasts' = <<message>> \o CallerToasts(calls[i].via)
    /\ loading' = IF calls[i].via = "AIGenerator" THEN loading ELSE FALSE
    /\ indexLoading' = IF calls[i].via = "CodeGenerator" THEN indexLoading ELSE FALSE
    /\ pc' = "thrown"
    /\ content' = <<>>
    /\ path' = "none"
    /\ result' = NoAnalysis
    /\ explanation' = <<>>
    /\ UNCHANGED <<misconceptions, correctAnswer, options, currentTab>>

\* invocation i fails with the message: the catch of part_001 lines 206-210 shows it
\* and rethrows, the callers' catch and finally blocks run (CodeGenerator.tsx lines
\* 210-215, Index.tsx lines 30-36, part_000 lines 136-141, AIGenerator.tsx line 48)
Fails(i, response, message) ==
    /\ calls' = Settled(i, "thrown", response, message)
    /\ toasts' = <<message>> \o CallerToasts(calls[i].via)
    /\ loading' = IF calls[i].via = "AIGenerator" THEN loading ELSE FALSE
    /\ indexLoading' = IF calls[i].via = "CodeGenerator" THEN indexLoading ELSE FALSE
    /\ pc' = "thrown"
    /\ content' = <<>>
    /\ path' = "none"
    /\ result' = NoAnalysis
    /\ UNCHANGED <<explanation, misconceptions, correctAnswer, options, currentTab>>

\* the arity effect of CodeGenerator.tsx lines 94-105, for an array: '' is pushed
\* while it holds fewer than 3 entries and entries are popped while it holds more
ExactlyThree(ms) ==
    [k \in 1..MisconceptionSlots |-> IF k <= Len(ms) THEN ms[k] ELSE JStr(<<>>)]

\* invocation i returns the record: CodeGenerator.tsx lines 190-209 and 213-215 set
\* the form from it; on the previous page Index.tsx lines 19-23 and 34-36 store it and
\* the effect of part_000 lines 51-63 sets the form
Returns(i, response, record) ==
    /\ calls' = Settled(i, "returned", response, "")
    /\ loading' = IF calls[i].via = "AIGenerator" THEN loading ELSE FALSE
    /\ indexLoading' = IF calls[i].via = "CodeGenerator" THEN indexLoading ELSE FALSE
    /\ explanation' = IF Truthy(record.explanation) THEN record.explanation.s ELSE explanation
    /\ misconceptions' =
          IF Truthy(record.misconceptions) /\ Len(record.misconceptions.a) > 0
          THEN IF calls[i].via = "CodeGenerator"
               THEN ExactlyThree(record.misconceptions.a)
               ELSE record.misconceptions.a
          ELSE misconceptions
    /\ correctAnswer' =
          IF Truthy(record.correctAnswer) /\ calls[i].type = "multiple-choice"
          THEN record.correctAnswer.s ELSE correctAnswer
    /\ options' =
          IF Truthy(record.correctAnswer) /\ calls[i].type # "multiple-choice"
          THEN [options EXCEPT !["A"] = record.correctAnswer.s] ELSE options
    /\ currentTab' = IF calls[i].via = "CodeGenerator" THEN "answers" ELSE currentTab
    /\ toasts' =
          CASE calls[i].via = "CodeGenerator" ->
                  <<"Content generated successfully! Now you can review and generate code.">>
            [] calls[i].via = "CodeGeneratorPrevious" ->
                  <<"Content generated successfully!", "AI content generated!">>
            [] calls[i].via = "AIGenerator" -> <<"Content generated successfully!">>

\* the FileReader of fileToBase64 (part_001 lines 283-296) settles for invocation i:
\* on load the request of lines 156-169 is sent, on error the promise rejects with
\* the event, which is no Error, so line 208 shows the generic message
fileToBase64(i, loaded) ==
    /\ i \in 1..Len(calls)
    /\ calls[i].stage = "reading"
    /\ IF loaded
       THEN /\ calls' = [calls EXCEPT ![i].stage = "fetching", ![i].sent = calls[i].sent + 1]
            /\ UNCHANGED <<toasts, loading, indexLoading>>
            /\ UNCHANGED <<nvars, gvars, correctAnswer, options>>
       ELSE /\ Fails(i, NoResponse, "Failed to generate content")
            /\ UNCHANGED <<prev, feeds, questionNumber, generatedCode, codeTab>>
    /\ UNCHANGED <<revision, apiKey, questionText, questionImage, aiPrompt, selectedModel,
                   questionType>>
    /\ UNCHANGED mvars

\* fetch settles for invocation i: lines 171-210 run, then the caller's continuation
fetchSettles(i, response) ==
    /\ i \in 1..Len(calls)
    /\ calls[i].stage = "fetching"
    /\ \E n \in {IF HasContent(response) THEN Normalize(response.body.content)
                 ELSE [threw |-> TRUE, path |-> "none", value |-> NoAnalysis]} :
          IF ~HasContent(response) THEN Fails(i, response, ThrownMessage(response))
          ELSE IF n.threw THEN Fails(i, response, "Cannot read properties of null")
          ELSE /\ pc' = "returned"
               /\ content' = response.body.content
               /\ path' = n.path
               /\ result' = n.value
               /\ Returns(i, response, n.value)
    /\ UNCHANGED <<prev, feeds, questionNumber, generatedCode, codeTab>>
    /\ UNCHANGED <<revision, apiKey, questionText, questionImage, aiPrompt, selectedModel,
                   questionType>>
    /\ UNCHANGED mvars

\* the state of the request flow when either page has just been loaded; the previous
\* CodeGenerator starts with no misconception (part_000 line 43)
InitRequest ==
    /\ revision \in {"current", "previous"}
    /\ misconceptions = IF revision = "current" THEN NoMisconceptions ELSE <<>>
    /\ apiKey = ""
    /\ questionText = ""
    /\ questionImage = FALSE
    /\ aiPrompt = ""
    /\ selectedModel = ""
    /\ questionType = "multiple-choice"
    /\ correctAnswer = <<"A">>
    /\ options = NoOptions
    /\ loading = FALSE
    /\ indexLoading = FALSE
    /\ calls = <<>>
    /\ toasts = <<>>
    /\ numberOfOptions = 4
    /\ teksStandard = <<>>
    /\ availableModels = <<>>
    /\ showModelSelector = FALSE
    /\ loadingModels = FALSE
    /\ modelFetches = <<>>
    /\ limit = [calls |-> MaxCalls, fetches |-> MaxFetches]
    /\ pc = "idle"
    /\ content = <<>>
    /\ path = "none"
    /\ result = NoAnalysis
    /\ prev = NoAnalysis
    /\ feeds = 0
    /\ explanation = <<>>
    /\ questionNumber = 1
    /\ generatedCode = NoCode
    /\ currentTab = "question"
    /\ codeTab = "feedback_code"

NextRequest ==
    \/ \E key \in {"sk-or-1"} : setApiKey(key)
    \/ \E text \in {"", "Solve 2x = 4."} : setQuestionText(text)
    \/ handleImageChange
    \/ \E prompt \in {"", "Answer in Spanish."} : setAiPrompt(prompt)
    \/ \E model \in Models : setSelectedModel(model)
    \/ \E type \in QuestionTypes : setQuestionType(type)
    \/ \E text \in {ShortParagraph} : setExplanation(text)
    \/ handleGenerateAI
    \/ handleGenerateAIPrevious
    \/ handleSubmit
    \/ \E i \in 1..MaxCalls, loaded \in BOOLEAN : fileToBase64(i, loaded)
    \/ \E i \in 1..MaxCalls, response \in Responses : fetchSettles(i, response)
    \/ \E i \in 1..MaxFetches, listed \in BOOLEAN : fetchModelsSettles(i, listed)

SpecRequest == InitRequest /\ [][NextRequest]_vars

(***************************************************************************)
(* The model list: the key is typed, changed and emptied while the runs of *)
(* the fetchModels effect settle in any order, each with its list          *)
(***************************************************************************)
NextModels ==
    \/ \E key \in {"", "sk-or-1", "sk-or-2"} : setApiKey(key)
    \/ \E i \in 1..MaxFetches, listed \in {TRUE} : fetchModelsSettles(i, listed)
    \/ \E model \in Models : setSelectedModel(model)
    \/ \E text \in {"Solve 2x = 4."} : setQuestionText(text)
    \/ handleGenerateAI
    \/ \E i \in 1..MaxCalls, response \in {[fetch |-> "rejected", ok |-> FALSE, body |-> NoBody]} :
          fetchSettles(i, response)

SpecModels == InitRequest /\ [][NextModels]_vars

(***************************************************************************)
(* Overlapping requests: both pages with room for a second invocation of   *)
(* generateAIContent while the first awaits its response                   *)
(***************************************************************************)
\* how many invocations the overlap specifications follow
MaxOverlap == 2

InitOverlap ==
    /\ revision \in {"current", "previous"}
    /\ misconceptions = IF revision = "current" THEN NoMisconceptions ELSE <<>>
    /\ apiKey = ""
    /\ questionText = ""
    /\ questionImage = FALSE
    /\ aiPrompt = ""
    /\ selectedModel = ""
    /\ questionType = "multiple-choice"
    /\ correctAnswer = <<"A">>
    /\ options = NoOptions
    /\ loading = FALSE
    /\ indexLoading = FALSE
    /\ calls = <<>>
    /\ toasts = <<>>
    /\ numberOfOptions = 4
    /\ teksStandard = <<>>
    /\ availableModels = <<>>
    /\ showModelSelector = FALSE
    /\ loadingModels = FALSE
    /\ modelFetches = <<>>
    /\ limit = [calls |-> MaxOverlap, fetches |-> MaxFetches]
    /\ pc = "idle"
    /\ content = <<>>
    /\ path = "none"
    /\ result = NoAnalysis
    /\ prev = NoAnalysis
    /\ feeds = 0
    /\ explanation = <<>>
    /\ questionNumber = 1
    /\ generatedCode = NoCode
    /\ currentTab = "question"
    /\ codeTab = "feedback_code"

\* the responses of the overlap specifications: fetch rejects, or the first choice
\* holds the sample object
OverlapResponses ==
    {[fetch |-> "rejected", ok |-> FALSE, body |-> NoBody],
     [fetch |-> "resolved", ok |-> TRUE,
      body |-> ResponseBody("object", "none", "", "content", SampleObjectText)]}

\* the pending step of invocation i: its FileReader or its fetch settles
Settle(i) ==
    \/ \E loaded \in BOOLEAN : fileToBase64(i, loaded)
    \/ \E response \in OverlapResponses : fetchSettles(i, response)

NextOverlap ==
    \/ \E key \in {"sk-or-1"} : setApiKey(key)
    \/ \E text \in {"Solve 2x = 4."} : setQuestionText(text)
    \/ handleImageChange
    \/ \E i \in 1..MaxFetches, listed \in {TRUE} : fetchModelsSettles(i, listed)
    \/ handleGenerateAI
    \/ handleGenerateAIPrevious
    \/ handleSubmit
    \/ \E i \in 1..MaxOverlap : Settle(i)

SpecOverlap == InitOverlap /\ [][NextOverlap]_vars

\* the FileReader and fetch of every invocation settle at some time: the browser
\* fires load or error for a read and resolves or rejects a fetch
FairSpecOverlap == SpecOverlap /\ \A i \in 1..MaxOverlap : WF_vars(Settle(i))

(***************************************************************************)
(* The form: what the responses, the user and Reset make of its state      *)
(***************************************************************************)
\* contents whose misconceptions array holds two strings, four strings with an answer
\* letter past the fourth option, and entries that are no strings.  Each is a JSON
\* object with an explanation string, a misconceptions array and an answer string.
FormContents ==
    {SampleObjectText,
     Stringify(ObjectOf(JStr(ShortParagraph), JArr([k \in 1..4 |-> JStr(ItemText(k, FALSE))]),
                        JStr(<<"E">>))),
     Stringify(ObjectOf(JStr(ShortParagraph), JArr(<<JNum(1), JNull>>), JStr(<<"C">>)))}

FormResponses ==
    {[fetch |-> "rejected", ok |-> FALSE, body |-> NoBody]}
        \cup {[fetch |-> "resolved", ok |-> TRUE,
               body |-> ResponseBody("object", "none", "", "content", text)] :
                 text \in FormContents}

NextForm ==
    \/ \E key \in {"sk-or-1"} : setApiKey(key)
    \/ \E text \in {"Solve 2x = 4."} : setQuestionText(text)
    \/ \E i \in 1..MaxFetches, listed \in {TRUE} : fetchModelsSettles(i, listed)
    \/ handleGenerateAI
    \/ handleGenerateAIPrevious
    \/ \E i \in 1..MaxCalls, response \in FormResponses : fetchSettles(i, response)
    \/ \E index \in {0}, text \in {<<"x">>} : setMisconception(index, text)
    \/ addMisconception
    \/ \E n \in {2, 5} : setNumberOfOptions(n)
    \/ \E option \in {<<"A">>, <<"B">>, <<"E">>} : setCorrectAnswer(option)
    \/ generateCode
    \/ generateCodePrevious
    \/ Reset

SpecForm == InitRequest /\ [][NextForm]_vars

(***************************************************************************)
(* Properties of the normalization                                         *)
(***************************************************************************)
\* what JSON.parse makes of the content that was normalized
Parsed == JSONParse(content)

IsStringList(v) == v.t = "arr" /\ \A i \in 1..Len(v.a) : v.a[i].t = "str"

\* the strings of the misconceptions field of a parsed object, none when it is missing
SuppliedMisconceptions ==
    LET m == Get(Parsed.v, KeyMisconceptions)
    IN  IF m = Undefined THEN <<>> ELSE m.a

\* the content is a JSON object whose misconceptions field is missing or a list of strings
ExpectedShape ==
    /\ Parsed.ok
    /\ Parsed.v.t = "obj"
    /\ LET m == Get(Parsed.v, KeyMisconceptions)
       IN  m = Undefined \/ IsStringList(m)

EmptyStrings(n) == [i \in 1..n |-> JStr(<<>>)]

\* C1: whatever text the first choice carries, generateAIContent returns a record
\* (an explanation and a misconceptions value) and does not raise.
C1_NeverRaises ==
    pc # "idle" =>
        /\ pc = "returned"
        /\ path \in {"json", "text"}
        /\ result.explanation # Undefined
        /\ result.misconceptions # Undefined

\* a text that is JSON of the wrong type (null, or a misconceptions value that cannot
\* be padded) was normalized and a record came back
C1_Witness ==
    /\ pc = "returned"
    /\ feeds = 0
    /\ Parsed.ok
    /\ path = "text"
    /\ result.misconceptions = JArr(EmptyStrings(MisconceptionSlots))

\* C2: a JSON object with fewer than 3 misconception strings (none when the field is
\* missing) gives those strings in order followed by empty strings up to 3.
C2_PadsToThree ==
    (pc = "returned" /\ ExpectedShape /\ Len(SuppliedMisconceptions) < MisconceptionSlots) =>
        /\ path = "json"
        /\ result.misconceptions =
              JArr(SuppliedMisconceptions \o
                   EmptyStrings(MisconceptionSlots - Len(SuppliedMisconceptions)))

C2_Witness ==
    /\ pc = "returned"
    /\ ExpectedShape
    /\ Len(SuppliedMisconceptions) = 1
    /\ SuppliedMisconceptions[1] # JStr(<<>>)
    /\ result.misconceptions = JArr(SuppliedMisconceptions \o EmptyStrings(2))

\* C3: a JSON object with more than 3 misconception strings gives exactly the
\* first 3 of them, in order.
C3_TruncatesToThree ==
    (pc = "returned" /\ ExpectedShape /\ Len(SuppliedMisconceptions) > MisconceptionSlots) =>
        result.misconceptions = JArr(SubSeq(SuppliedMisconceptions, 1, MisconceptionSlots))

\* the misconception candidates parseAIResponse finds in the content: the list items
\* of the misconception section, or else the paragraphs
Candidates ==
    LET listed == extractedMisconceptions(split(content, "section"))
    IN  IF listed = <<>> THEN paragraphs(content) ELSE listed

\* C4: the free-text fallback returns exactly 3 misconception strings, the slots past
\* the candidates it found being empty strings.
C4_FallbackGivesThree ==
    (pc = "returned" /\ path = "text") =>
        /\ IsStringList(result.misconceptions)
        /\ Len(result.misconceptions.a) = MisconceptionSlots
        /\ \A i \in 1..MisconceptionSlots :
              i > Len(Candidates) => result.misconceptions.a[i] = JStr(<<>>)

\* the fallback found more candidates than there are slots
C4_Witness ==
    /\ pc = "returned"
    /\ path = "text"
    /\ Len(Candidates) > MisconceptionSlots
    /\ \A i \in 1..MisconceptionSlots : result.misconceptions.a[i] # JStr(<<>>)

CannotBuild ==
    \/ Parsed.v = JNull
    \/ LET m == OrElse(Get(Parsed.v, KeyMisconceptions), JArr(<<>>))
       IN  m.t # "arr" /\ LessThan(LengthOf(m), MisconceptionSlots)

HeadedText(paragraph, long) ==
    Block(<<"#","#"," ">>, <<"E","x","p","l","a","n","a","t","i","o","n">>, paragraph) \o <<"\n", "\n">> \o
    Block(<<"#","#"," ">>, <<"M","i","s","c","o","n","c","e","p","t","i","o","n","s">>, ItemList("numbered", 3, long))

\* C6: for '## Explanation', a paragraph, '## Misconceptions' and three numbered
\* items, the explanation is the paragraph and the misconceptions are the three items.
C6_HeadedTextExtracted ==
    \A paragraph \in {ShortParagraph, LongParagraph}, long \in BOOLEAN :
        (pc = "returned" /\ content = HeadedText(paragraph, long)) =>
            /\ result.explanation = JStr(trim(paragraph))
            /\ result.misconceptions = JArr([k \in 1..3 |-> JStr(ItemText(k, long))])

\* the content fails JSON.parse and holds no heading marker and no list marker
Unmarked ==
    /\ ~Parsed.ok
    /\ Len(split(content, "section")) = 1
    /\ Len(split(content, "item")) = 1

\* C7 as stated: unmarked text gives a record with three misconception strings, and
\* a non-empty explanation whenever it is longer than 100 characters.
C7_UnmarkedTextExplained ==
    (pc = "returned" /\ Unmarked) =>
        /\ IsStringList(result.misconceptions)
        /\ Len(result.misconceptions.a) = MisconceptionSlots
        /\ Len(content) > SubstantialLength =>
              (result.explanation.t = "str" /\ result.explanation.s # <<>>)

\* the text that may become the explanation of unmarked content is not blank
ExplainableContent ==
    IF TestAnyCI(FirstLine(content), ExplanationWords)
    THEN \/ Len(FirstLine(content)) = Len(content)
         \/ trim(SubSeq(content, Len(FirstLine(content)) + 2, Len(content))) # <<>>
    ELSE /\ ~TestAnyCI(FirstLine(content), NotExplanationWords)
         /\ trim(content) # <<>>

\* C7 amended: the explanation is non-empty whenever the text is longer than 100
\* characters and its first line either matches explanation|solution|solving|steps
\* with non-blank text after it (or nothing after it), or matches none of
\* answer|correct|misconception|mistake|error while the text is not blank.
C7_UnmarkedTextExplainedUnlessAnswerLine ==
    (pc = "returned" /\ Unmarked) =>
        /\ IsStringList(result.misconceptions)
        /\ Len(result.misconceptions.a) = MisconceptionSlots
        /\ (Len(content) > SubstantialLength /\ ExplainableContent) =>
              (result.explanation.t = "str" /\ result.explanation.s # <<>>)

C7_Witness ==
    /\ pc = "returned"
    /\ Unmarked
    /\ Len(content) > SubstantialLength
    /\ ~TestAnyCI(FirstLine(content), ExplanationWords)
    /\ ExplainableContent
    /\ result.explanation = JStr(trim(content))

\* the indexes of content where /correct answer:?\s*([A-Z])/i matches
AnswerHits == {i \in 1..Len(content) : AnswerLetterAt(content, i) > 0}

AnswerLetter(i) == content[AnswerLetterAt(content, i)]

\* C8 as stated: wherever the free text holds 'correct answer', an optional colon,
\* optional white space and a letter, correctAnswer is that letter in upper case;
\* without such a place it is unset.
C8_AnswerLetterAnywhere ==
    (pc = "returned" /\ path = "text") =>
        /\ \A i \in AnswerHits : result.correctAnswer = JStr(<<toUpperCase(AnswerLetter(i))>>)
        /\ AnswerHits = {} => result.correctAnswer = Undefined

\* C8 amended: correctAnswer is the upper-cased letter of the first such place.
C8_FirstAnswerLetter ==
    (pc = "returned" /\ path = "text") =>
        /\ \A i \in AnswerHits :
              (\A j \in AnswerHits : i <= j) =>
                  /\ result.correctAnswer.t = "str"
                  /\ result.correctAnswer.s \in {<<u>> : u \in UpperSet}
                  /\ FoldCase(result.correctAnswer.s[1]) = FoldCase(AnswerLetter(i))
        /\ AnswerHits = {} => result.correctAnswer = Undefined

\* a lower-case letter after the phrase in another letter case was recorded in upper case
C8_Witness ==
    /\ pc = "returned"
    /\ path = "text"
    /\ \E i \in AnswerHits : AnswerLetter(i) = "c" /\ content[i] = "c" /\ content[i + 8] = "A"
    /\ result.correctAnswer = JStr(<<"C">>)

RECURSIVE HoldsInfinity(_)
\* the value is Infinity or holds it in an array or an object
HoldsInfinity(v) ==
    CASE v.t = "infinity" -> TRUE
      [] v.t = "arr" -> \E i \in 1..Len(v.a) : HoldsInfinity(v.a[i])
      [] v.t = "obj" -> \E i \in 1..Len(v.v) : HoldsInfinity(v.v[i])
      [] OTHER -> FALSE

ContentKeys == {"exp"} \cup {ErrHelpKeys[i] : i \in 1..3}

\* the index of the template's leading quote: the first double quote of the code
OpeningQuote(code) == FirstIndex({i \in 1..Len(code) : code[i] = "\""}, Len(code) + 1)

\* the index of the quote that closes a string literal whose first character is
\* at i, a backslash escaping the character after it; 0 when nothing closes it
RECURSIVE ClosingQuote(_, _)
ClosingQuote(code, i) ==
    IF i > Len(code) THEN 0
    ELSE IF code[i] = "\\" THEN ClosingQuote(code, i + 2)
    ELSE IF code[i] = "\"" THEN i
    ELSE ClosingQuote(code, i + 1)

\* C10: in every content line that generateCode rendered from the explanation or
\* a misconception, each double quote of the interpolated text stands after a
\* backslash, and the string literal opened by the template's leading quote is
\* closed by the template's final quote and by no quote before it.
C10_LiteralClosedByFinalQuote ==
    \A k \in ContentKeys \cap DOMAIN generatedCode :
        LET code == generatedCode[k]
            open == OpeningQuote(code)
        IN  /\ \A i \in (open + 1)..(Len(code) - 1) :
                   code[i] = "\"" => code[i - 1] = "\\"
            /\ ClosingQuote(code, open + 1) = Len(code)

(***************************************************************************)
(* Properties of parseAIResponse                                           *)
(***************************************************************************)

\* the sections of the content, as line 228 cuts them
Sections == split(content, "section")

\* the least index of a non-empty set of indexes
Least(hits) == CHOOSE i \in hits : \A j \in hits : i <= j

\* the indexes of the sections whose first line matches explanation|solution|solving|steps
ExplanationHits(secs) ==
    {i \in 1..Len(secs) : TestAnyCI(FirstLine(secs[i]), ExplanationWords)}

\* the indexes of the sections longer than 100 characters whose first line matches
\* none of answer|correct|misconception|mistake|error
SubstantialHits(secs) ==
    {i \in 1..Len(secs) :
        /\ Len(secs[i]) > SubstantialLength
        /\ ~TestAnyCI(FirstLine(secs[i]), NotExplanationWords)}

\* the text of a section after its first line and the line break that ends it
AfterFirstLine(sec) == SubSeq(sec, Len(FirstLine(sec)) + 2, Len(sec))

\* a section of one line, which no line break ends
OneLine(sec) == \A i \in 1..Len(sec) : sec[i] # "\n"

\* the explanation the selection rule gives for the sections secs, a headed section
\* of one line being kept whole or not
SelectedExplanation(secs, wholeLine) ==
    \E hits \in {ExplanationHits(secs)}, subs \in {SubstantialHits(secs)} :
        result.explanation =
            JStr(IF hits # {}
                 THEN IF wholeLine /\ OneLine(secs[Least(hits)])
                      THEN trim(secs[Least(hits)])
                      ELSE trim(AfterFirstLine(secs[Least(hits)]))
                 ELSE IF subs # {} THEN trim(secs[Least(subs)])
                 ELSE <<>>)

\* C11 as stated: the explanation is the first headed section without its heading
\* line, trimmed; without a headed section the first substantial section whose
\* heading names no answer or misconception; else the empty string.
C11_ExplanationIsHeadedBody ==
    (pc = "returned" /\ path = "text") =>
        \E secs \in {Sections} : SelectedExplanation(secs, FALSE)

\* C11 amended: the heading line is removed only when a line break ends it; a headed
\* section of a single line is the explanation whole, heading included.
C11_ExplanationIsHeadedBodyOrLine ==
    (pc = "returned" /\ path = "text") =>
        \E secs \in {Sections} : SelectedExplanation(secs, TRUE)

\* a headed section of several lines, after another section, gave its body
C11_Witness ==
    /\ pc = "returned"
    /\ path = "text"
    /\ \E secs \in {Sections} :
          \E hits \in {ExplanationHits(secs)} :
              /\ hits # {}
              /\ 1 \notin hits
              /\ ~OneLine(secs[Least(hits)])
              /\ result.explanation = JStr(trim(AfterFirstLine(secs[Least(hits)])))
    /\ result.explanation # JStr(<<>>)

\* /(?:^|\n)#+\s+/ at index q: a heading marker alone
HeadingMarkerAt(s, q) ==
    FirstMatch(<<IF q = 1 THEN HeadingEnd(s, q) ELSE 0,
                 IF s[q] = "\n" THEN HeadingEnd(s, q + 1) ELSE 0>>)

RECURSIVE HeadedBlocksFrom(_, _)
\* the text from p cut at the heading markers: each block is a heading line and what
\* follows it up to the next heading
HeadedBlocksFrom(s, p) ==
    LET q == FirstIndex({j \in p..Len(s) : HeadingMarkerAt(s, j) \notin {0, p}}, Len(s) + 1)
    IN  IF q > Len(s) THEN <<SubSeq(s, p, Len(s))>>
        ELSE <<SubSeq(s, p, q - 1)>> \o HeadedBlocksFrom(s, HeadingMarkerAt(s, q))

\* the non-empty trimmed list items of a section, the segment before the first
\* marker left out
ListItems(sec) ==
    LET segments == split(sec, "item")
        trimmed == [i \in 1..(Len(segments) - 1) |-> trim(segments[i + 1])]
    IN  SelectSeq(trimmed, LAMBDA item : item # <<>>)

\* the first three texts as JavaScript strings, empty strings filling up to three
FirstThree(texts) ==
    JArr([i \in 1..MisconceptionSlots |->
             IF i <= Len(texts) THEN JStr(texts[i]) ELSE JStr(<<>>)])

\* the indexes of the sections whose first line matches
\* misconception|mistake|error|confusion
MisconceptionHits(secs) ==
    {i \in 1..Len(secs) : TestAnyCI(FirstLine(secs[i]), MisconceptionWords)}

\* C12: when the section under a heading that matches
\* misconception|mistake|error|confusion holds list items marked by a number or a
\* bullet at line start, the misconceptions are its first three non-empty trimmed
\* items, in order.
C12_SectionItemsExtracted ==
    (pc = "returned" /\ path = "text") =>
        \E blocks \in {HeadedBlocksFrom(content, 1)} :
            \E hits \in {MisconceptionHits(blocks)} :
                hits # {} =>
                    \E items \in {ListItems(blocks[Least(hits)])} :
                        items # <<>> => result.misconceptions = FirstThree(items)

\* the list items of the first section whose first line matches the misconception
\* words, none without such a section
SectionItems(secs) ==
    IF MisconceptionHits(secs) = {} THEN <<>>
    ELSE ListItems(secs[Least(MisconceptionHits(secs))])

\* the trimmed paragraphs of the whole content that are longer than 50 characters
\* and hold misconception|mistake|error
ContentParagraphs ==
    LET all == split(content, "paragraph")
        kept == SelectSeq(all, LAMBDA p : Len(trim(p)) > ParagraphLength
                                            /\ TestAnyCI(p, ParagraphWords))
    IN  [i \in 1..Len(kept) |-> trim(kept[i])]

\* the misconceptions are the parsed value's own: its array followed by empty
\* strings only, or its non-array value as it is
FromJsonAlone ==
    /\ Parsed.ok
    /\ \E m \in {OrElse(Get(Parsed.v, KeyMisconceptions), JArr(<<>>))} :
          IF m.t = "arr"
          THEN /\ result.misconceptions.t = "arr"
               /\ Len(result.misconceptions.a) >= Len(m.a)
               /\ \A i \in 1..Len(result.misconceptions.a) :
                     result.misconceptions.a[i] =
                         IF i <= Len(m.a) THEN m.a[i] ELSE JStr(<<>>)
          ELSE result.misconceptions = m

\* the record's misconceptions come from one tier of JSON, section list items,
\* paragraphs: a later one only when the earlier ones gave nothing
OneTier(items, paras) ==
    \/ path = "json" /\ FromJsonAlone
    \/ /\ path = "text"
       /\ ~Parsed.ok \/ CannotBuild
       /\ result.misconceptions = FirstThree(IF items # <<>> THEN items ELSE paras)

\* the words a run of the full-text scan begins with
ScanWords == {<<"m","i","s","c","o","n","c","e","p","t","i","o","n">>,
              <<"m","i","s","t","a","k","e">>,
              <<"e","r","r","o","r">>,
              <<"s","t","u","d","e","n","t","s"," ","m","i","g","h","t">>}

\* C13 as stated: the misconceptions come from one tier of JSON, section list items,
\* paragraphs, full-text scan, in this order; without a misconception section and
\* with nothing from the earlier tiers, a run of the text that begins with a scan
\* word is used as a last resort.
C13_OneOfFourTiers ==
    pc = "returned" =>
        \E secs \in {Sections}, paras \in {ContentParagraphs} :
            \E items \in {SectionItems(secs)} :
                /\ OneTier(items, paras) \/ (items = <<>> /\ paras = <<>>)
                /\ (path = "text" /\ MisconceptionHits(secs) = {} /\ paras = <<>>
                      /\ TestAnyCI(content, ScanWords)) =>
                        result.misconceptions # JArr(EmptyStrings(MisconceptionSlots))

\* C13 amended: the misconceptions come from exactly one of three tiers, JSON, list
\* items of the misconception section, paragraphs of the whole response, a later
\* tier only when every earlier one gave nothing; with nothing from any tier they
\* are three empty strings.
C13_OneOfThreeTiers ==
    pc = "returned" =>
        \E secs \in {Sections}, paras \in {ContentParagraphs} :
            \E items \in {SectionItems(secs)} : OneTier(items, paras)

\* the section gave fewer items than there are slots while qualifying paragraphs
\* exist: the free slots stay empty
C13_Witness ==
    /\ pc = "returned"
    /\ path = "text"
    /\ \E secs \in {Sections}, paras \in {ContentParagraphs} :
          \E items \in {SectionItems(secs)} :
              /\ items # <<>>
              /\ Len(items) < MisconceptionSlots
              /\ paras # <<>>
              /\ result.misconceptions = FirstThree(items)

\* the trimmed blank-line-separated paragraphs of a section that are longer than
\* 50 characters
SectionParagraphs(sec) ==
    LET kept == SelectSeq(split(sec, "paragraph"),
                          LAMBDA p : Len(trim(p)) > ParagraphLength)
    IN  [i \in 1..Len(kept) |-> trim(kept[i])]

\* C14 as stated: when the misconception section holds no list marker, the
\* misconceptions are the paragraphs of that section that are longer than 50
\* characters, in order, up to 3.
C14_ParagraphsOfSection ==
    (pc = "returned" /\ path = "text") =>
        \E blocks \in {HeadedBlocksFrom(content, 1)} :
            \E hits \in {MisconceptionHits(blocks)} :
                (hits # {} /\ Len(split(blocks[Least(hits)], "item")) = 1) =>
                    result.misconceptions = FirstThree(SectionParagraphs(blocks[Least(hits)]))

\* C14 amended: when no list item came out of a misconception section (there is no
\* such section, or it holds no non-empty item), the misconceptions are the
\* paragraphs of the whole response that are longer than 50 characters and hold
\* misconception, mistake or error, trimmed, in order, up to 3.
C14_ParagraphsOfResponse ==
    (pc = "returned" /\ path = "text") =>
        \E secs \in {Sections}, paras \in {ContentParagraphs} :
            SectionItems(secs) = <<>> =>
                \A i \in 1..MisconceptionSlots :
                    result.misconceptions.a[i] =
                        JStr(IF i <= Len(paras) THEN paras[i] ELSE <<>>)

\* a misconception section without list markers: its paragraphs became the
\* misconceptions, while a long paragraph without the words was passed over
C14_Witness ==
    /\ pc = "returned"
    /\ path = "text"
    /\ \E secs \in {Sections}, paras \in {ContentParagraphs} :
          /\ MisconceptionHits(secs) # {}
          /\ SectionItems(secs) = <<>>
          /\ Len(paras) >= 2
          /\ result.misconceptions = FirstThree(paras)
          /\ \E all \in {split(content, "paragraph")} :
                \E i \in 1..Len(all) : /\ Len(trim(all[i])) > ParagraphLength
                                       /\ ~TestAnyCI(all[i], ParagraphWords)

(***************************************************************************)
(* Properties of the generation request                                    *)
(***************************************************************************)
\* invocation i has resolved or rejected
IsSettled(call) == call.stage \in {"returned", "thrown"}

\* C15 as stated: every invocation of generateAIContent, once it has settled, has
\* issued exactly one chat-completion request.
C15_ExactlyOneRequest ==
    \A i \in 1..Len(calls) : IsSettled(calls[i]) => calls[i].sent = 1

\* C15 amended: an invocation issues at most one chat-completion request and never
\* issues it again: exactly one once fetch is awaited and whatever the response is,
\* none when the image cannot be read; a settled invocation does nothing more.
C15_OneRequestUnlessImageUnread ==
    [][\A i \in 1..Len(calls') :
          /\ calls'[i].sent <= 1
          /\ calls'[i].stage \in {"fetching", "returned"} => calls'[i].sent = 1
          /\ calls'[i].stage = "reading" => calls'[i].sent = 0
          /\ i <= Len(calls) =>
                /\ calls'[i].sent >= calls[i].sent
                /\ calls[i].stage = "fetching" => calls'[i].sent = 1
                /\ (calls[i].stage = "reading" /\ calls'[i].stage = "thrown") =>
                        calls'[i].sent = 0
                /\ IsSettled(calls[i]) => calls'[i] = calls[i]]_vars

\* an invocation has failed on a response that was not ok, after one request
C15_Witness ==
    \E i \in 1..Len(calls) :
        /\ calls[i].stage = "thrown"
        /\ calls[i].sent = 1
        /\ calls[i].response.fetch = "resolved"
        /\ ~calls[i].response.ok

\* C16: when the endpoint answers with a status that is not ok, generateAIContent
\* fails, returning no record, with the provider's error message when the error body
\* carries one and with 'Failed to generate content' otherwise.
C16_NonSuccessReported ==
    \A i \in 1..Len(calls) :
        (IsSettled(calls[i]) /\ calls[i].response.fetch = "resolved" /\ ~calls[i].response.ok) =>
            /\ calls[i].stage = "thrown"
            /\ calls[i].message =
                  IF calls[i].response.body.json = "object"
                       /\ calls[i].response.body.error = "message"
                       /\ calls[i].response.body.message # ""
                  THEN calls[i].response.body.message
                  ELSE "Failed to generate content"

\* C17: the step in which a generation request fails (status not ok, no choices,
\* transport failure, or any other error) leaves the form's explanation,
\* misconceptions, correct answer and answer options as they were, sends no request
\* and starts no invocation.
C17_FailureKeepsForm ==
    [][\A i \in 1..Len(calls) :
          (~IsSettled(calls[i]) /\ calls'[i].stage = "thrown") =>
              /\ explanation' = explanation
              /\ misconceptions' = misconceptions
              /\ correctAnswer' = correctAnswer
              /\ options' = options
              /\ Len(calls') = Len(calls)
              /\ \A j \in 1..Len(calls) : calls'[j].sent = calls[j].sent]_vars

\* a request failed on a transport failure while the form held an explanation
C17_Witness ==
    /\ explanation # <<>>
    /\ \E i \in 1..Len(calls) :
          /\ calls[i].stage = "thrown"
          /\ calls[i].response.fetch = "rejected"
          /\ toasts # <<>>

\* C18: a step that starts an invocation, and so a chat-completion request, is taken
\* only when a question image or a question text has been supplied and an API key
\* is configured.
C18_NoRequestWithoutQuestionOrKey ==
    [][Len(calls') > Len(calls) =>
          /\ questionImage \/ questionText # ""
          /\ apiKey # ""]_vars

\* the request of the invocation a step has just started
NewRequest == calls'[Len(calls')].request

\* C19: the system prompt of a request is the default prompt of the question type
\* when the caller's prompt is empty, and a caller's prompt that is not empty is
\* carried in the request, not replaced by the default.
C19_CallerPromptCarried ==
    [][Len(calls') > Len(calls) =>
          IF aiPrompt = ""
          THEN NewRequest.system =
                  IF revision = "previous" THEN GeneralPrompt
                  ELSE IF questionType = "multiple-choice" THEN MultipleChoicePrompt
                  ELSE EquationPrompt
          ELSE aiPrompt \in {NewRequest.system, NewRequest.user}]_vars

\* the models taken to support JSON-object output; the other model of the selector
\* is taken not to
JsonModeModels == {DefaultModel}

\* C20 as stated: a request in flight asks for JSON-object output exactly when its
\* model supports that mode.
C20_JsonObjectOnlyIfSupported ==
    \A i \in 1..Len(calls) :
        ~IsSettled(calls[i]) =>
            (calls[i].request.response_format = "json_object"
                <=> calls[i].request.model \in JsonModeModels)

\* C20 amended: every request asks for JSON-object output, whatever its model.
C20_AlwaysJsonObject ==
    \A i \in 1..Len(calls) :
        ~IsSettled(calls[i]) => calls[i].request.response_format = "json_object"

\* a request for the other model has been sent and asks for JSON-object output
C20_Witness ==
    \E i \in 1..Len(calls) :
        /\ calls[i].stage = "fetching"
        /\ calls[i].sent = 1
        /\ calls[i].request.model \in Models \ JsonModeModels
        /\ calls[i].request.response_format = "json_object"

(***************************************************************************)
(* Properties of the code panel                                            *)
(***************************************************************************)
\* the text w occurs in the text s
Occurs(w, s) == \E i \in 1..Len(s) : StartsWithAt(s, i, w)

\* the question numbers n for which a key q<n>_... occurs in the text
KeyNumbers(s) ==
    {n \in 1..(MaxQuestionNumber + 1) : Occurs(<<"q">> \o NumberToText(n) \o <<"_">>, s)}

\* what the code panel shows under the chosen code tab
Shown == Displayed(codeTab, questionNumber, generatedCode)

\* C24: whenever generated code is displayed, the question number of its key header
\* is the question number the snippet body uses, also when the question number was
\* edited after the last generateCode.
C24_HeaderNumberIsBodyNumber ==
    (currentTab = "code" /\ generatedCode # NoCode) => KeyNumbers(Shown) = {questionNumber}

\* the slot name err_<num>_help of a misconception snippet
ErrHelpSlot(num) == <<"e","r","r","_">> \o NumberToText(num) \o <<"_","h","e","l","p">>

\* C30: after generateCode each of err_1_help, err_2_help and err_3_help has a code
\* tab, among those the tab controls offer, under which the panel shows it.
C30_EverySnippetHasTab ==
    generatedCode # NoCode =>
        \A num \in 1..MisconceptionSlots :
            /\ ErrHelpKeys[num] \in DOMAIN generatedCode
            /\ \E tab \in CodeTabs :
                  Displayed(tab, questionNumber, generatedCode) =
                      KeyHeader(questionNumber, ErrHelpSlot(num)) \o generatedCode[ErrHelpKeys[num]]

\* with the third snippet left aside every snippet has its tab: the first two do
C30_FirstTwoSnippetsHaveTabs ==
    generatedCode # NoCode =>
        \A num \in 1..2 :
            /\ ErrHelpKeys[num] \in DOMAIN generatedCode
            /\ \E tab \in CodeTabs :
                  Displayed(tab, questionNumber, generatedCode) =
                      KeyHeader(questionNumber, ErrHelpSlot(num)) \o generatedCode[ErrHelpKeys[num]]

\* the panel never shows the third snippet
C30_ThirdSnippetNeverShown ==
    generatedCode # NoCode =>
        Shown # KeyHeader(questionNumber, ErrHelpSlot(3)) \o generatedCode[ErrHelpKeys[3]]

(***************************************************************************)
(* Properties of the form                                                  *)
(***************************************************************************)
\* C22: on the page whose CodeGenerator has the arity effect, the misconceptions of
\* the form are exactly 3 strings after any user edits, applied results and resets.
C22_ThreeStrings ==
    revision = "current" =>
        /\ Len(misconceptions) = MisconceptionSlots
        /\ AreStrings(misconceptions)

\* the misconceptions of the form are exactly 3 entries
C22_ThreeEntries == revision = "current" => Len(misconceptions) = MisconceptionSlots

\* the keys of the misconception snippets a generated code holds
ErrKeysOf(code) == {k \in DOMAIN code : \E i \in 1..Len(ErrHelpKeys) : ErrHelpKeys[i] = k}

\* the code holds exactly the snippets err_1_help, err_2_help and err_3_help, the
\* i-th built for question number q from the i-th of the misconceptions ms
ThreeSnippets(code, q, ms) ==
    /\ ErrKeysOf(code) = {ErrHelpKeys[i] : i \in 1..MisconceptionSlots}
    /\ \A i \in 1..MisconceptionSlots :
          /\ i <= Len(ms)
          /\ ms[i].t = "str"
          /\ code[ErrHelpKeys[i]] = misconceptionCode(q, ms[i].s)

\* C23: after every generateCode the generated code holds exactly three misconception
\* snippets, err_1_help, err_2_help and err_3_help, the i-th built from the i-th
\* misconception slot, whatever the user and the responses did before.
C23_ThreeSnippets ==
    [][(generateCode \/ generateCodePrevious) =>
          ThreeSnippets(generatedCode', questionNumber, misconceptions)]_vars

\* on the current page generateCode gives the three snippets whenever the three
\* misconceptions are strings
C23_ThreeSnippetsOfStrings ==
    [][(generateCode /\ AreStrings(misconceptions)) =>
          ThreeSnippets(generatedCode', questionNumber, misconceptions)]_vars

\* C29: in multiple-choice mode the correct answer of the form is one of the option
\* labels on offer, the first numberOfOptions letters, after any applied results,
\* changes of the number of options, selections and resets.
C29_AnswerIsOffered == questionType = "multiple-choice" => correctAnswer \in OfferedOptions

\* the invocations that were in flight when Reset was pressed
ResetInFlight == {k \in 1..Len(calls) : calls[k].reset}

\* the form of the current page holds what Reset left: no explanation, three empty
\* misconceptions and no generated code
AsReset ==
    /\ revision = "current"
    /\ explanation = <<>>
    /\ misconceptions = NoMisconceptions
    /\ generatedCode = NoCode

\* C28: after Reset the explanation, the misconceptions and the generated code stay
\* empty until the user's next edit or submission: when an invocation that was in
\* flight at the Reset settles, it leaves them as Reset left them.
C28_ResetStaysEmpty ==
    [][(AsReset /\ \E k \in ResetInFlight : calls[k].stage = "fetching" /\ calls'[k].stage # "fetching")
          => (explanation' = explanation /\ misconceptions' = misconceptions
              /\ generatedCode' = generatedCode)]_vars

\* an invocation that was in flight at the Reset and fails leaves the form as it was
C28_ResetStaysEmptyOnFailure ==
    [][(AsReset /\ \E k \in ResetInFlight : calls[k].stage = "fetching" /\ calls'[k].stage = "thrown")
          => (explanation' = explanation /\ misconceptions' = misconceptions
              /\ generatedCode' = generatedCode)]_vars

(***************************************************************************)
(* Properties of the model list                                            *)
(***************************************************************************)
\* a run of the fetchModels effect settles in this step
ModelFetchSettles == Len(modelFetches') < Len(modelFetches)

\* C25: a model-list fetch that completes sets selectedModel only when no model is
\* selected at that moment, and then to the default: a model the user has chosen is
\* never replaced by the completion of a fetch, also one started before the choice.
C25_ChosenModelKept ==
    [][ModelFetchSettles =>
          IF selectedModel = ""
          THEN availableModels' # <<>> => selectedModel' = defaultModel(availableModels')
          ELSE selectedModel' = selectedModel]_vars

\* a completing fetch sets the default when no model is selected
C25_DefaultWhenNoneSelected ==
    [][(ModelFetchSettles /\ selectedModel = "" /\ availableModels' # <<>>)
          => selectedModel' = defaultModel(availableModels')]_vars

\* a completing fetch keeps the selected model when the effect run that awaited it
\* started after the selection
C25_ChosenModelKeptByLaterFetch ==
    [][(ModelFetchSettles /\ selectedModel # ""
        /\ \E i \in 1..Len(modelFetches) :
              /\ modelFetches' = RemoveAt(modelFetches, i)
              /\ modelFetches[i].selectedModel # "")
          => selectedModel' = selectedModel]_vars

\* C26: once all the overlapping model-list fetches have settled, availableModels is
\* the list returned for the current API key, in whatever order they settled.
C26_ListOfCurrentKey ==
    (revision = "current" /\ apiKey # "" /\ modelFetches = <<>>)
        => availableModels = ModelsOf(apiKey)

(***************************************************************************)
(* Properties of overlapping requests                                      *)
(***************************************************************************)
\* the invocations whose promise is pending: the image is being read or the
\* request awaits its response
InFlight == {k \in 1..Len(calls) : calls[k].stage \in {"reading", "fetching"}}

\* C21: at most one generation request is in flight at any time, whichever submit
\* control of the page started it
C21_AtMostOneInFlight == Cardinality(InFlight) <= 1

\* the same for the page that CodeGenerator.tsx makes alone, whose one button is
\* disabled by its own loading flag
C21_AtMostOneInFlightFromCodeGenerator ==
    revision = "current" => Cardinality(InFlight) <= 1

\* the same once the button of the previous CodeGenerator has started a request:
\* it sets the flags of both buttons
C21_NoneAfterCodeGenerator ==
    [][\A k \in InFlight : calls[k].via = "CodeGeneratorPrevious" => Len(calls') = Len(calls)]_vars

\* the flags that invocation k set when it was submitted: loading of CodeGenerator,
\* loading of Index, or both
FlagsSet(k) ==
    CASE calls[k].via = "CodeGenerator" -> loading
      [] calls[k].via = "CodeGeneratorPrevious" -> loading /\ indexLoading
      [] calls[k].via = "AIGenerator" -> indexLoading

FlagsCleared(k) ==
    CASE calls[k].via = "CodeGenerator" -> ~loading
      [] calls[k].via = "CodeGeneratorPrevious" -> ~loading /\ ~indexLoading
      [] calls[k].via = "AIGenerator" -> ~indexLoading

\* C27: the loading flag of a request is true from its submission until it resolves
\* or rejects
C27_LoadingUntilSettled == \A k \in InFlight : FlagsSet(k)

\* the same for the flag that the component of the button holds itself
C27_OwnLoadingUntilSettled ==
    \A k \in InFlight : calls[k].via # "AIGenerator" => loading

\* every request that is started has its loading flag cleared at some later time
C27_EventuallyCleared ==
    \A k \in 1..MaxOverlap : (k \in InFlight) ~> (k \in DOMAIN calls /\ FlagsCleared(k))

\* the flag is cleared by the very step in which the request resolves or rejects
C27_ClearedWhenSettled ==
    [][\A k \in InFlight : k \notin InFlight' => FlagsCleared(k)']_vars

====
